---- MODULE Spec2Model ----
(***************************************************************************)
(* LVMH portfolio dashboard: the aggregation / ranking core of app.py and  *)
(* the two verified-count generators.                                      *)
(*                                                                         *)
(* Python strings are sequences of one-character strings, so that          *)
(* str.replace, str.strip, re.sub and sorted() are computed character by   *)
(* character.  The citation brackets U+3010 and U+3011 are written "[" and *)
(* "]".  Python None and a missing dict key are the empty tuple <<>>, a    *)
(* present value v is <<v>>.                                               *)
(***************************************************************************)
EXTENDS Integers, Sequences, FiniteSets, TLC

VARIABLES
    pc,          \* position of the run: which script runs and how far it is
    files,       \* os.path.exists: year -> set of candidate mentions files
    tables,      \* pd.read_excel: year -> content of that year's mentions file
    data,        \* load_data's dict: year -> <<>> or <<table>> (mentions_<year>)
    loaded_from, \* year -> <<>> or <<kind>>: the file read_excel was called on
    ranking,     \* create_cross_year_ranking's result
    kpis,        \* get_kpis' result for the selected year
    details,     \* the details row(s) a generator reads
    verified,    \* the rows a generator emits
    name,        \* a Maison name passing through the normalizing scripts
    label,       \* a period label and its chain of predecessors
    view         \* what one rendering of a dashboard view produced

vars == <<pc, files, tables, data, loaded_from, ranking, kpis, details,
          verified, name, label, view>>

None == <<>>
Some(v) == <<v>>

\* ------------------------------------------------------------------ bounds
MaxParts == 3      \* fragments concatenated into an input name or label
MaxRows == 3       \* rows of a mentions table
MaxCount == 2      \* largest count in a category cell
MaxCellLen == 3    \* characters of a generated activity cell
MaxPasses == 2     \* normalizing scripts a name passes through

\* ---------------------------------------------------------------- strings
RECURSIVE Concat(_)
Concat(ss) == IF ss = <<>> THEN <<>> ELSE Head(ss) \o Concat(Tail(ss))

\* Code-point order of the characters used (for sorted() and comparisons).
CodeOrder == <<" ", "0", "1", "2", "3", "4", "5", "9", "A", "B", "D", "E",
               "F", "G", "H", "L", "N", "P", "S", "X", "a", "c", "d", "e",
               "f", "g", "h", "i", "l", "m", "n", "o", "p", "r", "s", "t",
               "u", "v", "w", "x", "[", "]">>

Ord(c) == CHOOSE i \in 1..Len(CodeOrder) : CodeOrder[i] = c

\* Python's str < str: lexicographic by code point, a proper prefix is less.
RECURSIVE StrLess(_, _)
StrLess(a, b) ==
    IF b = <<>> THEN FALSE
    ELSE IF a = <<>> THEN TRUE
    ELSE IF Head(a) = Head(b) THEN StrLess(Tail(a), Tail(b))
    ELSE Ord(Head(a)) < Ord(Head(b))

\* str.replace(old, new): every non-overlapping occurrence, left to right.
RECURSIVE Replace(_, _, _)
Replace(s, old, new) ==
    IF Len(s) < Len(old) THEN s
    ELSE IF SubSeq(s, 1, Len(old)) = old
         THEN new \o Replace(SubSeq(s, Len(old) + 1, Len(s)), old, new)
         ELSE <<Head(s)>> \o Replace(Tail(s), old, new)

Bvlgari == <<"B", "v", "l", "g", "a", "r", "i">>
Bulgari == <<"B", "u", "l", "g", "a", "r", "i">>
Dior == <<"D", "i", "o", "r">>
Fendi == <<"F", "e", "n", "d", "i">>
Loewe == <<"L", "o", "e", "w", "e">>

\* str.replace(old, new, 1): the first occurrence only.
RECURSIVE ReplaceFirst(_, _, _)
ReplaceFirst(s, old, new) ==
    IF Len(s) < Len(old) THEN s
    ELSE IF SubSeq(s, 1, Len(old)) = old
         THEN new \o SubSeq(s, Len(old) + 1, Len(s))
         ELSE <<Head(s)>> \o ReplaceFirst(Tail(s), old, new)

\* ---------------------------------------------------------- Name Normalizer
\* The replacement stopping after the first occurrence.
normalize_first_only(x) == ReplaceFirst(x, Bvlgari, Bulgari)

\* df['Maison'].str.replace('Bvlgari', 'Bulgari', regex=False), per name.
normalize(x) == Replace(x, Bvlgari, Bulgari)

\* ------------------------------------------------------------------ Period
Y2019 == <<"2", "0", "1", "9">>
Y2020 == <<"2", "0", "2", "0">>
Y2021 == <<"2", "0", "2", "1">>
Y2022 == <<"2", "0", "2", "2">>
Y2023 == <<"2", "0", "2", "3">>
Y2024 == <<"2", "0", "2", "4">>
Y2025H1 == <<"2", "0", "2", "5", "H", "1">>

\* years = ['2019', ..., '2025H1'], the fixed ordered sequence of periods.
Years == <<Y2019, Y2020, Y2021, Y2022, Y2023, Y2024, Y2025H1>>
YearSet == {Years[i] : i \in 1..Len(Years)}

\* year_mapping with the entry of '2025H1' pointing one period too far back.
year_mapping_skipping ==
    (Y2025H1 :> Some(Y2023)) @@ (Y2024 :> Some(Y2023)) @@
    (Y2023 :> Some(Y2022)) @@ (Y2022 :> Some(Y2021)) @@
    (Y2021 :> Some(Y2020)) @@ (Y2020 :> Some(Y2019)) @@ (Y2019 :> None)

\* The dict literal of get_previous_year.
year_mapping ==
    (Y2025H1 :> Some(Y2024)) @@ (Y2024 :> Some(Y2023)) @@
    (Y2023 :> Some(Y2022)) @@ (Y2022 :> Some(Y2021)) @@
    (Y2021 :> Some(Y2020)) @@ (Y2020 :> Some(Y2019)) @@ (Y2019 :> None)

\* year_mapping.get(selected_year): None for a key the dict does not hold.
\* A lookup that wraps around: the earliest period is preceded by the latest.
get_previous_year_wrapping(selected_year) ==
    IF selected_year \in DOMAIN year_mapping
        THEN IF year_mapping[selected_year] = None
                THEN Some(Years[Len(Years)])
                ELSE year_mapping[selected_year]
        ELSE None

get_previous_year(selected_year) ==
    IF selected_year \in DOMAIN year_mapping
        THEN year_mapping[selected_year]
        ELSE None

\* -------------------------------------------------------------- categories
\* categories = ['Product', 'Place', ..., 'Awards'], fixed and ordered.
Categories == <<"Product", "Place", "Partnership", "ESG", "Performance",
                "Digital", "Pricing", "Promotion", "People", "Awards">>
CategorySet == {Categories[i] : i \in 1..Len(Categories)}

\* ------------------------------------------------------------------ tables
\* A mentions table (DataFrame): the columns it lacks and its rows in order.
\* A row holds the Maison name, its category cells and the stored
\* Total_Mentions cell (read only when the column is present).
Row(m, c, t) == [Maison |-> m, cnt |-> c, Total_Mentions |-> t]
Table(miss, rs) == [missing |-> miss, rows |-> rs]

Raised(e) == [raised |-> e]
IsRaised(r) == "raised" \in DOMAIN r

RowIdx(df) == 1..Len(df.rows)

OneHot(c, v) == [k \in CategorySet |-> IF k = c THEN v ELSE 0]
Uniform(v) == [k \in CategorySet |-> v]

\* sum(axis=1) over the category columns in a given list, left to right.
RECURSIVE SumOver(_, _)
SumOver(cnt, cats) ==
    IF cats = <<>> THEN 0 ELSE cnt[Head(cats)] + SumOver(cnt, Tail(cats))

\* calculate_total_mentions leaving the last category out of the sum.
calculate_total_mentions_short(df) ==
    IF df.missing \cap CategorySet # {} THEN Raised("KeyError")
    ELSE Table(df.missing \ {"Total_Mentions"},
               [i \in RowIdx(df) |->
                   Row(df.rows[i].Maison, df.rows[i].cnt,
                       SumOver(df.rows[i].cnt,
                               SubSeq(Categories, 1, Len(Categories) - 1)))])

\* df['Total_Mentions'] = df[categories].sum(axis=1); return df
\* df[categories] raises KeyError when a category column is absent.
calculate_total_mentions(df) ==
    IF df.missing \cap CategorySet # {} THEN Raised("KeyError")
    ELSE Table(df.missing \ {"Total_Mentions"},
               [i \in RowIdx(df) |->
                   Row(df.rows[i].Maison, df.rows[i].cnt,
                       SumOver(df.rows[i].cnt, Categories))])

\* --------------------------------------------------------------- load_data
Kinds == {"standardized_verified", "standardized", "verified", "original"}
VerifiedKinds == {"standardized_verified", "verified"}

\* A chain that would try the verified file before the standardized one.
mentions_file_verified_first(exists) ==
    IF "standardized_verified" \in exists THEN "standardized_verified"
    ELSE IF "verified" \in exists THEN "verified"
    ELSE IF "standardized" \in exists THEN "standardized"
    ELSE "original"

\* The if / elif chain choosing mentions_file among the candidates.
mentions_file(exists) ==
    IF "standardized_verified" \in exists THEN "standardized_verified"
    ELSE IF "standardized" \in exists THEN "standardized"
    ELSE IF "verified" \in exists THEN "verified"
    ELSE "original"

\* One pass of the loop body for `year`: the key mentions_<year> is set iff
\* the chosen file exists.
load_year(exists, content) ==
    IF mentions_file(exists) \in exists THEN content ELSE None

load_from(exists) ==
    IF mentions_file(exists) \in exists THEN Some(mentions_file(exists)) ELSE None

LoadedYears(d) == {y \in YearSet : d[y] # None}
Df(d, y) == d[y][1]

\* ------------------------------------------------- create_cross_year_ranking
\* sorted(set of str, reverse=True)
RECURSIVE SortedStrsReversed(_)
SortedStrsReversed(S) ==
    IF S = {} THEN <<>>
    ELSE LET m == CHOOSE x \in S : \A z \in S \ {x} : StrLess(z, x)
         IN <<m>> \o SortedStrsReversed(S \ {m})

\* sorted(set of str)
RECURSIVE SortedStrs(_)
SortedStrs(S) ==
    IF S = {} THEN <<>>
    ELSE LET m == CHOOSE x \in S : \A z \in S \ {x} : StrLess(x, z)
         IN <<m>> \o SortedStrs(S \ {m})

\* Insert v into a descending sequence.
RECURSIVE InsertDesc(_, _)
InsertDesc(v, s) ==
    IF s = <<>> THEN <<v>>
    ELSE IF v >= Head(s) THEN <<v>> \o s
    ELSE <<Head(s)>> \o InsertDesc(v, Tail(s))

RECURSIVE SortDesc(_)
SortDesc(s) == IF s = <<>> THEN <<>> ELSE InsertDesc(Head(s), SortDesc(Tail(s)))

\* Series.rank(method='min', ascending=False): the values in descending
\* order, each value ranked by the first position of its tie group.
RankMin(values) ==
    LET sorted == SortDesc(values)
    IN [i \in DOMAIN values |->
           CHOOSE p \in 1..Len(sorted) :
               /\ sorted[p] = values[i]
               /\ \A q \in 1..(p - 1) : sorted[q] # values[i]]

\* year_df[year_df['Maison'] == maison] after the Bvlgari replacement:
\* the positions of the matching rows, and .iloc[0], the first of them.
Matching(df, maison) == {i \in RowIdx(df) : normalize(df.rows[i].Maison) = maison}
First(I) == CHOOSE i \in I : \A j \in I : i <= j

all_maisons(d) ==
    UNION {{Df(d, y).rows[i].Maison : i \in RowIdx(Df(d, y))} : y \in LoadedYears(d)}

Totals(df) == [i \in RowIdx(df) |-> df.rows[i].Total_Mentions]

row_data(d, maison) ==
    [Maison |-> maison,
     mentions |-> [y \in LoadedYears(d) |->
        IF Matching(Df(d, y), maison) # {}
            THEN Df(d, y).rows[First(Matching(Df(d, y), maison))].Total_Mentions
            ELSE 0],
     rank |-> [y \in LoadedYears(d) |->
        IF Matching(Df(d, y), maison) # {}
            THEN Some(RankMin(Totals(Df(d, y)))[First(Matching(Df(d, y), maison))])
            ELSE None]]

\* Reading the column 'Total_Mentions' of a table that lacks it raises
\* KeyError inside the loop over the Maisons.
create_cross_year_ranking(d) ==
    IF all_maisons(d) # {} /\
       \E y \in LoadedYears(d) : "Total_Mentions" \in Df(d, y).missing
    THEN Raised("KeyError")
    ELSE LET names == SortedStrs(all_maisons(d))
         IN [rows |-> [k \in 1..Len(names) |-> row_data(d, names[k])]]

\* ------------------------------------------------------------------ get_kpis
Perms(n) == {p \in [1..n -> 1..n] : \A i, j \in 1..n : p[i] = p[j] => i = j}

\* The orders of sort_values('Total_Mentions') with ascending=True.
SortOrdersAscending(df) ==
    {p \in Perms(Len(df.rows)) :
        \A i \in 1..(Len(df.rows) - 1) :
            df.rows[p[i]].Total_Mentions <= df.rows[p[i + 1]].Total_Mentions}

\* sort_values('Total_Mentions', ascending=False): the default sort kind is
\* not stable, so rows with equal totals may come out in either order.
SortOrders(df) ==
    {p \in Perms(Len(df.rows)) :
        \A i \in 1..(Len(df.rows) - 1) :
            df.rows[p[i]].Total_Mentions >= df.rows[p[i + 1]].Total_Mentions}

\* The table left in the order it was built in.
Unsorted(df, p) == df

\* The table with its rows in the order p.
Reorder(df, p) == Table(df.missing, [i \in RowIdx(df) |-> df.rows[p[i]]])

\* df[category].max()
ColMax(df, c) ==
    CHOOSE m \in {df.rows[i].cnt[c] : i \in RowIdx(df)} :
        \A i \in RowIdx(df) : df.rows[i].cnt[c] <= m

\* df[df[category] == value]: the matching rows, in the order of df.
RowsEqual(df, c, v) == SelectSeq(df.rows, LAMBDA r : r.cnt[c] = v)

\* Leaders crowned as soon as the maximum is 1 (threshold off by one).
leaders_from_one(df, c) ==
    IF ColMax(df, c) >= 1 THEN RowsEqual(df, c, ColMax(df, c)) ELSE <<>>

\* max_mentions = df[category].max(); the rows at the maximum if it is > 1,
\* else an empty DataFrame.
leaders(df, c) ==
    IF ColMax(df, c) > 1 THEN RowsEqual(df, c, ColMax(df, c)) ELSE <<>>

NoKpis == [most_mentioned |-> None, prev_most_mentioned |-> None,
           category_leaders |-> None, prev_category_leaders |-> None]

\* current_df = calculate_total_mentions(data[year_key].copy()) followed by
\* sort_values; `ord` is the row order the sort produces.
sorted_totals(df, ord) ==
    IF IsRaised(calculate_total_mentions(df))
        THEN calculate_total_mentions(df)
        ELSE Reorder(calculate_total_mentions(df), ord)

\* get_kpis(data, selected_year); `ord` and `prev_ord` are the row orders
\* the two sort_values calls produce.
get_kpis(d, selected_year, ord, prev_ord) ==
    LET prev_year == get_previous_year(selected_year)
        has_prev == prev_year # None /\ d[prev_year[1]] # None
        current_df == sorted_totals(Df(d, selected_year), ord)
        prev_sorted == sorted_totals(Df(d, prev_year[1]), prev_ord)
    IN  IF d[selected_year] = None THEN NoKpis
        ELSE IF IsRaised(current_df) THEN current_df
        ELSE IF has_prev /\ IsRaised(prev_sorted) THEN prev_sorted
        ELSE [most_mentioned |-> Some(current_df.rows[1]),
              prev_most_mentioned |->
                 IF has_prev THEN Some(prev_sorted.rows[1]) ELSE None,
              category_leaders |->
                 Some([c \in CategorySet |-> leaders(current_df, c)]),
              prev_category_leaders |->
                 Some([c \in (IF has_prev THEN CategorySet ELSE {}) |->
                         leaders(Df(d, prev_year[1]), c)])]

\* ------------------------------------------------- create_stacked_bar_chart
Min(a, b) == IF a < b THEN a ELSE b

\* nlargest keeping the last of equal totals (keep='last').
nlargest_keep_last(df, n) ==
    LET p == CHOOSE q \in Perms(Len(df.rows)) :
                \A i, j \in RowIdx(df) : i < j =>
                    \/ df.rows[q[i]].Total_Mentions > df.rows[q[j]].Total_Mentions
                    \/ /\ df.rows[q[i]].Total_Mentions = df.rows[q[j]].Total_Mentions
                       /\ q[i] > q[j]
    IN SubSeq(p, 1, Min(n, Len(df.rows)))

\* df.nlargest(n, 'Total_Mentions'): the positions of the n largest totals in
\* descending order; keep='first' puts equal totals in table order.
nlargest(df, n) ==
    LET p == CHOOSE q \in Perms(Len(df.rows)) :
                \A i, j \in RowIdx(df) : i < j =>
                    \/ df.rows[q[i]].Total_Mentions > df.rows[q[j]].Total_Mentions
                    \/ /\ df.rows[q[i]].Total_Mentions = df.rows[q[j]].Total_Mentions
                       /\ q[i] < q[j]
    IN SubSeq(p, 1, Min(n, Len(df.rows)))

\* f"{maison} ({year})"
bar_label(maison, year) == maison \o <<" ", "(">> \o year \o <<")">>

\* The rows of df whose Maison cell equals maison, first one first.
RowsOfMaison(df, maison) == SelectSeq(df.rows, LAMBDA r : r.Maison = maison)

\* The bars of one Maison with the selected year's bar put first.
maison_bars_selected_first(d, selected_year, current_df, maison) ==
    LET prev_year == get_previous_year(selected_year)
        has_prev == prev_year # None /\ d[prev_year[1]] # None
    IN (IF RowsOfMaison(current_df, maison) # <<>>
        THEN <<[Maison_Year |-> bar_label(maison, selected_year),
                Maison |-> maison, Year |-> selected_year,
                row |-> RowsOfMaison(current_df, maison)[1],
                missing |-> current_df.missing]>>
        ELSE <<>>)
       \o
       (IF has_prev /\ RowsOfMaison(Df(d, prev_year[1]), maison) # <<>>
        THEN <<[Maison_Year |-> bar_label(maison, prev_year[1]),
                Maison |-> maison, Year |-> prev_year[1],
                row |-> RowsOfMaison(Df(d, prev_year[1]), maison)[1],
                missing |-> Df(d, prev_year[1]).missing]>>
        ELSE <<>>)

\* The bars of one Maison: the previous year's, when the previous year is
\* loaded and names the Maison, then the selected year's.
maison_bars(d, selected_year, current_df, maison) ==
    LET prev_year == get_previous_year(selected_year)
        has_prev == prev_year # None /\ d[prev_year[1]] # None
    IN (IF has_prev /\ RowsOfMaison(Df(d, prev_year[1]), maison) # <<>>
        THEN <<[Maison_Year |-> bar_label(maison, prev_year[1]),
                Maison |-> maison, Year |-> prev_year[1],
                row |-> RowsOfMaison(Df(d, prev_year[1]), maison)[1],
                missing |-> Df(d, prev_year[1]).missing]>>
        ELSE <<>>)
       \o
       (IF RowsOfMaison(current_df, maison) # <<>>
        THEN <<[Maison_Year |-> bar_label(maison, selected_year),
                Maison |-> maison, Year |-> selected_year,
                row |-> RowsOfMaison(current_df, maison)[1],
                missing |-> current_df.missing]>>
        ELSE <<>>)

RECURSIVE all_bars(_, _, _, _)
all_bars(d, selected_year, current_df, top_maisons) ==
    IF top_maisons = <<>> THEN <<>>
    ELSE maison_bars(d, selected_year, current_df, Head(top_maisons))
         \o all_bars(d, selected_year, current_df, Tail(top_maisons))

\* Long-format rows that all carry the count of the first category.
bar_rows_first_count(bar) ==
    [k \in 1..Len(Categories) |->
        [Maison_Year |-> bar.Maison_Year, Maison |-> bar.Maison,
         Category |-> Categories[k], Mentions |-> bar.row.cnt[Categories[1]],
         Year |-> bar.Year]]

\* The ten long-format rows of one bar, in the order of `categories`.
bar_rows(bar) ==
    [k \in 1..Len(Categories) |->
        [Maison_Year |-> bar.Maison_Year, Maison |-> bar.Maison,
         Category |-> Categories[k], Mentions |-> bar.row.cnt[Categories[k]],
         Year |-> bar.Year]]

RECURSIVE long_format(_)
long_format(bars) ==
    IF bars = <<>> THEN <<>>
    ELSE bar_rows(Head(bars)) \o long_format(Tail(bars))

NoFigure == [fig |-> FALSE]

\* create_stacked_bar_chart(data, selected_year, top_n): None when the year
\* is not loaded or nothing is charted; KeyError when a category column is
\* read from a table that lacks it.
create_stacked_bar_chart(d, selected_year, top_n) ==
    IF d[selected_year] = None THEN NoFigure
    ELSE IF IsRaised(calculate_total_mentions(Df(d, selected_year)))
    THEN Raised("KeyError")
    ELSE LET current_df == calculate_total_mentions(Df(d, selected_year))
             top == nlargest(current_df, top_n)
             top_maisons == [k \in 1..Len(top) |-> current_df.rows[top[k]].Maison]
             bars == all_bars(d, selected_year, current_df, top_maisons)
         IN IF \E k \in 1..Len(bars) : bars[k].missing \cap CategorySet # {}
            THEN Raised("KeyError")
            ELSE IF bars = <<>> THEN NoFigure
            ELSE [fig |-> TRUE,
                  top_maisons |-> top_maisons,
                  ordered_labels |-> [k \in 1..Len(bars) |-> bars[k].Maison_Year],
                  chart_data |-> long_format(bars)]

\* ------------------------------------------------------------ the dashboard
NoFiles == [y \in YearSet |-> {}]
\* f'details_{year}': the key (and the file) of a year's details table.
details_key(year) == <<"d", "e", "t", "a", "i", "l", "s", "_">> \o year
Keys == YearSet \cup {details_key(y) : y \in YearSet}

NoTables == [k \in Keys |-> None]

\* Maison names of the input tables; a year's table names an entity once.
Spellings == {Bvlgari, Bulgari, Dior, Fendi}

RECURSIVE RowSeqs(_, _)
RowSeqs(RowSet, n) ==
    IF n = 0 THEN {<<>>}
    ELSE LET shorter == RowSeqs(RowSet, n - 1)
         IN shorter \cup
            {Append(s, r) : <<s, r>> \in
                {x \in shorter \X RowSet :
                    /\ Len(x[1]) = n - 1
                    /\ \A i \in 1..Len(x[1]) :
                          normalize(x[1][i].Maison) # normalize(x[2].Maison)}}

NonEmpty(SeqSet) == {s \in SeqSet : s # <<>>}

\* Rows whose stored Total_Mentions is any value up to MaxCount and whose
\* category cells sum to it or to one more (a stale stored total).
StoredRows ==
    {Row(m, OneHot("Product", t + d), t) :
        m \in Spellings, t \in 0..MaxCount, d \in {0, 1}}

\* Consistent rows of positive total for the multi-year inputs.
SlimRows ==
    {Row(m, OneHot("Product", t), t) :
        m \in {Bvlgari, Bulgari, Dior}, t \in 1..MaxCount}

SlimTables ==
    {Table({}, rs) : rs \in {<<r>> : r \in SlimRows} \cup
        {<<r1, r2>> : <<r1, r2>> \in
            {x \in SlimRows \X SlimRows :
                normalize(x[1].Maison) # normalize(x[2].Maison)}}}

TinyTables ==
    {Table({}, <<Row(Dior, OneHot("Product", 1), 1)>>),
     Table({}, <<Row(Bulgari, OneHot("Product", 2), 2)>>),
     Table({}, <<Row(Bvlgari, OneHot("Product", 1), 1)>>)}

StoredTables == {Table({}, rs) : rs \in NonEmpty(RowSeqs(StoredRows, MaxRows))}

NoTotalTables ==
    {Table({"Total_Mentions"}, <<Row(m, OneHot("Product", 1), 0)>>) :
        m \in Spellings}

YearPairs == {S \in SUBSET YearSet : \E a, b \in S : a # b /\ S = {a, b}}

\* The files on disk: every year in S has one mentions file holding f[y].
OnDisk(S, f, kind) ==
    /\ files = [y \in YearSet |-> IF y \in S THEN {kind} ELSE {}]
    /\ tables = [k \in Keys |-> IF k \in S THEN Some(f[k]) ELSE None]
    /\ data = NoTables /\ loaded_from = NoTables
    /\ ranking = None /\ kpis = None
    /\ details = None /\ verified = None /\ view = None
    /\ name = None /\ label = None
    /\ pc = "start"

InitRank ==
    \/ \E y \in {Y2019, Y2025H1} :
        \E f \in [{y} -> StoredTables \cup NoTotalTables] : OnDisk({y}, f, "original")
    \/ \E S \in YearPairs : \E f \in [S -> SlimTables] : OnDisk(S, f, "original")
    \/ \E f \in [YearSet -> TinyTables] : OnDisk(YearSet, f, "original")

\* A file pd.read_excel cannot read: the call raises.
Unreadable == Raised("read_excel")

\* What load_data reads for a key: the chosen mentions file of a year, or the
\* details file, when it exists.
data_read(fs, ts, k) ==
    IF k \in YearSet THEN load_year(fs[k], ts[k]) ELSE ts[k]

\* load_data(): for every year, read the first existing candidate mentions
\* file, and the details file when it exists.  No read is guarded: an
\* exception of read_excel leaves load_data without a result.
load_data ==
    /\ pc = "start"
    /\ IF \E k \in Keys : data_read(files, tables, k) # None
                            /\ IsRaised(data_read(files, tables, k)[1])
       THEN /\ pc' = "load_failed"
            /\ UNCHANGED <<data, loaded_from>>
       ELSE /\ data' = [k \in Keys |-> data_read(files, tables, k)]
            /\ loaded_from' = [k \in Keys |->
                    IF k \in YearSet THEN load_from(files[k]) ELSE None]
            /\ pc' = "loaded"
    /\ UNCHANGED <<files, tables, ranking, kpis, details, verified, name, label,
                   view>>

\* main: cross_year_df = create_cross_year_ranking(data)
call_create_cross_year_ranking ==
    /\ pc = "loaded"
    /\ ranking' = Some(create_cross_year_ranking(data))
    /\ pc' = "ranked"
    /\ UNCHANGED <<files, tables, data, loaded_from, kpis, details, verified,
                   name, label, view>>

NextRank == load_data \/ call_create_cross_year_ranking

SpecRank == InitRank /\ [][NextRank]_vars

\* ------------------------------------------------- verified-count derivers
CatChars ==
    ("Product" :> <<"P", "r", "o", "d", "u", "c", "t">>) @@
    ("Place" :> <<"P", "l", "a", "c", "e">>) @@
    ("Partnership" :> <<"P", "a", "r", "t", "n", "e", "r", "s", "h", "i", "p">>) @@
    ("ESG" :> <<"E", "S", "G">>) @@
    ("Performance" :> <<"P", "e", "r", "f", "o", "r", "m", "a", "n", "c", "e">>) @@
    ("Digital" :> <<"D", "i", "g", "i", "t", "a", "l">>) @@
    ("Pricing" :> <<"P", "r", "i", "c", "i", "n", "g">>) @@
    ("Promotion" :> <<"P", "r", "o", "m", "o", "t", "i", "o", "n">>) @@
    ("People" :> <<"P", "e", "o", "p", "l", "e">>) @@
    ("Awards" :> <<"A", "w", "a", "r", "d", "s">>)

Digits == <<"1", "2", "3", "4", "5">>

\* The details column '{Category}_{index}'.
Col(c, i) == CatChars[c] \o <<"_">> \o <<Digits[i]>>
MaisonCol == <<"M", "a", "i", "s", "o", "n">>
YearCol == <<"Y", "e", "a", "r">>

\* str.startswith
StartsWith(s, prefix) ==
    Len(s) >= Len(prefix) /\ SubSeq(s, 1, Len(prefix)) = prefix

IsSpace(c) == c = " "

\* str.strip(): leading and trailing whitespace removed.
RECURSIVE LStrip(_)
LStrip(s) == IF s # <<>> /\ IsSpace(Head(s)) THEN LStrip(Tail(s)) ELSE s

RECURSIVE RStrip(_)
RStrip(s) ==
    IF s # <<>> /\ IsSpace(s[Len(s)]) THEN RStrip(SubSeq(s, 1, Len(s) - 1)) ELSE s

Strip(s) == RStrip(LStrip(s))

\* str.lower() on the letters used.
LowerChar(c) ==
    IF c = "N" THEN "n" ELSE IF c = "A" THEN "a" ELSE IF c = "X" THEN "x" ELSE c
Lower(s) == [i \in 1..Len(s) |-> LowerChar(s[i])]

\* Position of the first closing bracket of s, 0 when it has none.
FirstClose(s) ==
    IF \E i \in 1..Len(s) : s[i] = "]"
        THEN CHOOSE i \in 1..Len(s) : s[i] = "]" /\ \A j \in 1..(i - 1) : s[j] # "]"
        ELSE 0

\* re.sub(pattern, '', text, count=1): only the first token is removed.
RemoveFirstCitation(s) ==
    LET opens == {i \in 1..Len(s) :
                    s[i] = "[" /\ \E k \in (i + 1)..Len(s) : s[k] = "]"}
    IN  IF opens = {} THEN s
        ELSE LET i == CHOOSE o \in opens : \A p \in opens : o <= p
                 k == CHOOSE c \in (i + 1)..Len(s) :
                        s[c] = "]" /\ \A d \in (i + 1)..(c - 1) : s[d] # "]"
             IN SubSeq(s, 1, i - 1) \o SubSeq(s, k + 1, Len(s))

\* re.sub(pattern, '', text) for the citation pattern: the opening bracket,
\* any characters but the closing bracket, the closing bracket.  Leftmost
\* matches, not overlapping.
RECURSIVE RemoveCitations(_)
RemoveCitations(s) ==
    IF s = <<>> THEN <<>>
    ELSE IF Head(s) = "[" /\ FirstClose(Tail(s)) > 0
         THEN RemoveCitations(SubSeq(Tail(s), FirstClose(Tail(s)) + 1, Len(s) - 1))
         ELSE <<Head(s)>> \o RemoveCitations(Tail(s))

\* re.sub(r'\s+', ' ', text): every run of whitespace becomes one space.
RECURSIVE CollapseSpaces(_)
CollapseSpaces(s) ==
    IF s = <<>> THEN <<>>
    ELSE IF IsSpace(Head(s))
         THEN <<" ">> \o CollapseSpaces(LStrip(Tail(s)))
         ELSE <<Head(s)>> \o CollapseSpaces(Tail(s))

\* clean_citations without the removal of the citation tokens.
clean_citations_keeping(text) ==
    IF text = None THEN text
    ELSE LET t == Strip(CollapseSpaces(text[1]))
         IN IF t # <<>> THEN Some(t) ELSE None

\* A value that is no str: a number read from a numeric cell.
Number(n) == <<"number", n>>
is_str(text) == Len(text) = 1

\* clean_citations(text): a cell is None (NaN), Some(characters) or a number;
\* NaN and non-str values are returned as they are.
clean_citations(text) ==
    IF text = None \/ ~is_str(text) THEN text
    ELSE LET t == Strip(CollapseSpaces(RemoveCitations(text[1])))
         IN IF t # <<>> THEN Some(t) ELSE None

Zero == <<"0">>
Nan == <<"n", "a", "n">>

\* Every cell under a column of the category counts, whatever it holds.
counts_activity_every_cell(col, value, category) ==
    StartsWith(col, CatChars[category] \o <<"_">>)

\* The body of the loop over details_row.index for one column.
counts_activity(col, value, category) ==
    /\ StartsWith(col, CatChars[category] \o <<"_">>)
    /\ value # None
    /\ Strip(value[1]) # <<>>
    /\ LET activity_text == clean_citations(Some(Strip(value[1])))
       IN /\ activity_text # None
          /\ activity_text[1] # Zero
          /\ Lower(activity_text[1]) \notin {Nan, <<>>}

\* count += 1 over the columns index[1..n].
RECURSIVE count_loop(_, _, _, _)
count_loop(index, row, category, n) ==
    IF n = 0 THEN 0
    ELSE count_loop(index, row, category, n - 1) +
         (IF counts_activity(index[n], row[n], category) THEN 1 ELSE 0)

\* sum(counts.values()) over the dict filled category by category.
RECURSIVE sum_values(_, _)
sum_values(counts, n) ==
    IF n = 0 THEN 0 ELSE sum_values(counts, n - 1) + counts[Categories[n]]

\* count_activities_for_maison(details_row): the ten counts and their total.
count_activities_for_maison(index, row) ==
    LET counts == [c \in CategorySet |-> count_loop(index, row, c, Len(index))]
    IN [cnt |-> counts, Total_Mentions |-> sum_values(counts, Len(Categories))]

\* category_columns of count_mentions_in_details: columns per category.
category_columns ==
    ("Product" :> 5) @@ ("Place" :> 5) @@ ("Partnership" :> 3) @@
    ("ESG" :> 2) @@ ("Performance" :> 1) @@ ("Digital" :> 2) @@
    ("Pricing" :> 1) @@ ("Promotion" :> 4) @@ ("People" :> 1) @@
    ("Awards" :> 1)

\* details_row[col] for `col in details_row.index`.
Position(index, col) == CHOOSE k \in 1..Len(index) : index[k] = col
HasCol(index, col) == \E k \in 1..Len(index) : index[k] = col

\* A count over every column named '<category>_...', fixed or not.
count_mentions_by_prefix(index, row, category) ==
    IF category \notin DOMAIN category_columns THEN 0
    ELSE Cardinality({k \in 1..Len(index) :
            /\ StartsWith(index[k], CatChars[category] \o <<"_">>)
            /\ row[k] # None
            /\ Strip(row[k][1]) # <<>>})

\* count_mentions_in_details(details_row, category)
count_mentions_in_details(index, row, category) ==
    IF category \notin DOMAIN category_columns THEN 0
    ELSE Cardinality({i \in 1..category_columns[category] :
            /\ HasCol(index, Col(category, i))
            /\ row[Position(index, Col(category, i))] # None
            /\ Strip(row[Position(index, Col(category, i))][1]) # <<>>})

Maison(index, row) == row[Position(index, MaisonCol)][1]

\* The loop of generate_standardized_verified over df_details.iterrows().
standardized_verified_rows(dt) ==
    [i \in 1..Len(dt.rows) |->
        LET counts == count_activities_for_maison(dt.index, dt.rows[i])
        IN Row(Maison(dt.index, dt.rows[i]), counts.cnt, counts.Total_Mentions)]

\* The loop of generate_verified_mentions, after the Bvlgari replacement.
verified_rows(dt) ==
    [i \in 1..Len(dt.rows) |->
        LET mention_counts ==
                [c \in CategorySet |->
                    count_mentions_in_details(dt.index, dt.rows[i], c)]
        IN Row(normalize(Maison(dt.index, dt.rows[i])), mention_counts,
               sum_values(mention_counts, Len(Categories)))]

\* ------------------------------------------------------------ generator runs
CellChars == {"x", " ", "0", "n", "a", "N", "[", "]"}

RECURSIVE SeqsUpTo(_, _)
SeqsUpTo(S, n) ==
    IF n = 0 THEN {<<>>}
    ELSE LET shorter == SeqsUpTo(S, n - 1)
         IN shorter \cup {Append(s, c) : s \in {t \in shorter : Len(t) = n - 1}, c \in S}

\* Text cells: every string up to MaxCellLen characters; NaN is None.
AllCells == {None} \cup {Some(s) : s \in SeqsUpTo(CellChars, MaxCellLen)}

LaunchedX == <<"x", " ", "x", "[", "x", "]">>
OpenedStore == <<"x", " ", "x">>
OnlyCitation == <<"[", "x", "]">>

\* The cells of the documented example, NaN and a cell that is only a token.
ExampleCells == {Some(LaunchedX), Some(<<>>), Some(Zero), Some(Nan),
                 Some(OpenedStore), Some(OnlyCitation), None}

SplitNan == <<"n", "[", "x", "]", "a", "n">>
CuratedCells == {None, Some(<<"x">>), Some(Zero), Some(<<" ", "0", "[", "]">>),
                 Some(SplitNan), Some(<<"[", "x">>)}

DetailsTable(index, rows) == [index |-> index, rows |-> rows]

\* Details tables of several rows: per row a Maison and two cells.
RowNames == <<Dior, Bvlgari, Fendi>>
RowCells == {None, Some(Zero), Some(OpenedStore)}

InitGen ==
    /\ files = NoFiles /\ tables = NoTables
    /\ data = NoTables /\ loaded_from = NoTables
    /\ ranking = None /\ kpis = None /\ verified = None
    /\ name = None /\ label = None /\ view = None
    /\ pc = "generate"
    /\ \/ \E m \in {Bvlgari, Dior}, a \in AllCells, b \in CuratedCells :
            details = DetailsTable(
                <<MaisonCol, YearCol, Col("Product", 1), Col("Place", 1)>>,
                <<<<Some(m), Some(Y2024), a, b>>>>)
       \/ \E c \in [1..5 -> ExampleCells] :
            details = DetailsTable(
                <<MaisonCol, YearCol, Col("Product", 1), Col("Product", 2),
                  Col("Product", 3), Col("Product", 4), Col("Product", 5),
                  Col("Awards", 1)>>,
                <<<<Some(Dior), Some(Y2024), c[1], c[2], c[3], c[4], c[5],
                    Some(OpenedStore)>>>>)
       \/ \E a \in ExampleCells, b \in ExampleCells :
            details = DetailsTable(
                <<MaisonCol, YearCol, Col("Product", 1),
                  CatChars["Product"] \o <<"_", "x">>>>,
                <<<<Some(Dior), Some(Y2024), a, b>>>>)
       \/ details = DetailsTable(
                <<MaisonCol, YearCol, Col("Product", 1), Col("Place", 1)>>, <<>>)
       \/ \E n \in 2..3 : \E c \in [1..n -> RowCells \X RowCells] :
            details = DetailsTable(
                <<MaisonCol, YearCol, Col("Product", 1), Col("Place", 1)>>,
                [i \in 1..n |->
                    <<Some(RowNames[i]), Some(Y2024), c[i][1], c[i][2]>>])

\* generate_standardized_verified(year_str): one row per details row, then
\* sort_values('Total_Mentions', ascending=False).reset_index(drop=True).
\* pd.DataFrame([]) has no columns: with no details row the sort raises
\* KeyError and nothing is written.
generate_standardized_verified ==
    /\ pc = "generate"
    /\ LET verified_df == Table({}, standardized_verified_rows(details))
       IN IF details.rows = <<>>
          THEN verified' = [by |-> "standardized_verified",
                            table |-> Raised("KeyError")]
          ELSE \E ord \in SortOrders(verified_df) :
                verified' = [by |-> "standardized_verified",
                             table |-> Reorder(verified_df, ord)]
    /\ pc' = "generated"
    /\ UNCHANGED <<files, tables, data, loaded_from, ranking, kpis, details,
                   name, label, view>>

\* generate_verified_mentions(year)
generate_verified_mentions ==
    /\ pc = "generate"
    /\ LET verified_df == Table({}, verified_rows(details))
       IN IF details.rows = <<>>
          THEN verified' = [by |-> "verified", table |-> Raised("KeyError")]
          ELSE \E ord \in SortOrders(verified_df) :
                verified' = [by |-> "verified",
                             table |-> Reorder(verified_df, ord)]
    /\ pc' = "generated"
    /\ UNCHANGED <<files, tables, data, loaded_from, ranking, kpis, details,
                   name, label, view>>

NextGen == generate_standardized_verified \/ generate_verified_mentions

SpecGen == InitGen /\ [][NextGen]_vars

\* ------------------------------------------------- the generators' main loops
\* years = ['2019', '2022', '2023', '2024', '2025H1'] in both scripts.
GenYears == <<Y2019, Y2022, Y2023, Y2024, Y2025H1>>
GenYearSet == {GenYears[i] : i \in 1..Len(GenYears)}

\* generate_standardized_verified(year) up to the sort: None when the details
\* file does not exist; read_excel or row['Maison'] may raise.
standardized_verified_year(file) ==
    IF file = None THEN [status |-> "not found"]
    ELSE IF IsRaised(file[1]) THEN file[1]
    ELSE IF ~HasCol(file[1].index, MaisonCol) THEN Raised("KeyError")
    ELSE [status |-> "generated",
          table |-> Table({}, standardized_verified_rows(file[1]))]

\* generate_verified_mentions(year) up to the sort: details_df['Maison'] and
\* row['Year'] raise KeyError when the column is absent.
verified_year(file) ==
    IF file = None THEN [status |-> "not found"]
    ELSE IF IsRaised(file[1]) THEN file[1]
    ELSE IF ~HasCol(file[1].index, MaisonCol) \/ ~HasCol(file[1].index, YearCol)
        THEN Raised("KeyError")
    ELSE [status |-> "generated", table |-> Table({}, verified_rows(file[1]))]

\* One iteration of main's loop: try: generate(year) / except Exception:
\* print the error and go on with the next year.
try_year(generated, ord) ==
    IF IsRaised(generated) THEN [status |-> "error"]
    ELSE IF generated.status = "not found" THEN generated
    ELSE [status |-> "generated", table |-> Reorder(generated.table, ord)]

YearOrders(generated) ==
    IF IsRaised(generated) \/ generated.status = "not found" THEN {<<>>}
    ELSE SortOrders(generated.table)

\* The details files of the five years: absent, unreadable, lacking the
\* Maison column, or one of two readable tables.
MainFiles ==
    {None, Some(Unreadable),
     Some(DetailsTable(<<YearCol, Col("Product", 1)>>,
                       <<<<Some(Y2024), Some(OpenedStore)>>>>)),
     Some(DetailsTable(<<MaisonCol, YearCol, Col("Product", 1)>>,
                       <<<<Some(Dior), Some(Y2024), Some(OpenedStore)>>>>)),
     Some(DetailsTable(<<MaisonCol, YearCol, Col("Product", 1), Col("Awards", 1)>>,
                       <<<<Some(Fendi), Some(Y2024), Some(Zero), Some(LaunchedX)>>,
                         <<Some(Bvlgari), Some(Y2024), Some(LaunchedX), None>>>>))}

\* main() of either script is about to enter its loop over the years.
InitMain ==
    /\ files = NoFiles /\ tables = NoTables
    /\ data = NoTables /\ loaded_from = NoTables
    /\ ranking = None /\ kpis = None
    /\ name = None /\ label = None /\ view = None
    /\ pc = "main"
    /\ details \in [GenYearSet -> MainFiles]
    /\ \E by \in {"standardized_verified", "verified"} :
            verified = [by |-> by, next |-> 1,
                        years |-> [y \in GenYearSet |-> [status |-> "pending"]]]

\* One iteration of the loop of main(); after the last year main returns.
main_iteration(generated) ==
    /\ pc = "main"
    /\ verified.next <= Len(GenYears)
    /\ \E ord \in YearOrders(generated) :
        verified' = [verified EXCEPT
                        !.next = @ + 1,
                        !.years[GenYears[verified.next]] =
                            try_year(generated, ord)]
    /\ pc' = IF verified.next = Len(GenYears) THEN "main done" ELSE "main"
    /\ UNCHANGED <<files, tables, data, loaded_from, ranking, kpis, details,
                   name, label, view>>

\* generate_standardized_verified.py, main()
main_standardized_verified ==
    /\ pc = "main"
    /\ verified.by = "standardized_verified"
    /\ main_iteration(standardized_verified_year(details[GenYears[verified.next]]))

\* generate_verified_mentions.py, main()
main_verified_mentions ==
    /\ pc = "main"
    /\ verified.by = "verified"
    /\ main_iteration(verified_year(details[GenYears[verified.next]]))

\* ------------------------------------------------------------- the KPI runs
KpiNames == <<Dior, Fendi, Bulgari, Loewe>>

\* Category cells: one category at a time up to MaxCount, or one mention in
\* every category.
CntSet ==
    {OneHot(c, v) : c \in {"Product", "Awards"}, v \in 0..MaxCount}
        \cup {Uniform(1)}

\* Raw tables: the stored Total_Mentions is stale (0) or the column is absent.
KpiTable(miss, cs) ==
    Table(miss, [i \in 1..Len(cs) |-> Row(KpiNames[i], cs[i], 0)])

KpiTables ==
    {KpiTable(miss, cs) :
        miss \in {{}, {"Total_Mentions"}},
        cs \in NonEmpty(SeqsUpTo(CntSet, MaxRows))}

KpiSmallTables ==
    {KpiTable({}, cs) :
        cs \in {<<a>> : a \in CntSet} \cup {<<a, b>> : a \in CntSet, b \in CntSet}}

KpiPairs == {{Y2019, Y2020}, {Y2023, Y2024}, {Y2024, Y2025H1},
             {Y2021, Y2024}, {Y2019, Y2025H1}}

InitKpis ==
    \/ \E y \in {Y2019, Y2024} :
        \E f \in [{y} -> KpiTables] : OnDisk({y}, f, "original")
    \/ \E S \in KpiPairs : \E f \in [S -> KpiSmallTables] : OnDisk(S, f, "original")

AnyOrder(d, y) ==
    IF d[y] = None \/ IsRaised(calculate_total_mentions(Df(d, y)))
        THEN {<<>>}
        ELSE SortOrders(calculate_total_mentions(Df(d, y)))

PrevOrder(d, y) ==
    IF get_previous_year(y) = None THEN {<<>>}
    ELSE AnyOrder(d, get_previous_year(y)[1])

\* main: get_kpis(data, selected_year), for any period the caller passes.
call_get_kpis ==
    /\ pc = "loaded"
    /\ \E y \in YearSet : \E ord \in AnyOrder(data, y), prev_ord \in PrevOrder(data, y) :
        kpis' = [selected_year |-> y,
                 current_df |->
                    IF data[y] = None THEN None
                    ELSE Some(sorted_totals(Df(data, y), ord)),
                 result |-> get_kpis(data, y, ord, prev_ord)]
    /\ pc' = "kpis"
    /\ UNCHANGED <<files, tables, data, loaded_from, ranking, details,
                   verified, name, label, view>>

NextKpis == load_data \/ call_get_kpis

SpecKpis == InitKpis /\ [][NextKpis]_vars

\* The dashboard's KPI runs and the generator runs together.
Init == InitKpis \/ InitGen

Next == NextKpis \/ NextGen

Spec == Init /\ [][Next]_vars

\* ------------------------------------------------- names through the scripts
NameFragments == {Bvlgari, Bulgari, Dior, <<"B">>, <<"v">>, <<" ">>,
                  <<"B", "v", "l">>, <<"g", "a", "r", "i">>}

NameInputs == {Concat(ps) : ps \in SeqsUpTo(NameFragments, MaxParts)}

InitNames ==
    /\ files = NoFiles /\ tables = NoTables
    /\ data = NoTables /\ loaded_from = NoTables
    /\ ranking = None /\ kpis = None
    /\ details = None /\ verified = None /\ view = None /\ label = None
    /\ pc = "normalize"
    /\ \E x \in NameInputs : name = [raw |-> x, passes |-> <<>>]

Last(nm) == IF nm.passes = <<>> THEN nm.raw ELSE nm.passes[Len(nm.passes)]

\* A script applies the Bvlgari replacement to the name it read: first
\* generate_verified_mentions, then compare_mentions or the dashboard on the
\* file that script wrote.
normalize_name ==
    /\ name # None
    /\ Len(name.passes) < MaxPasses
    /\ name' = [name EXCEPT !.passes = Append(@, normalize(Last(name)))]
    /\ UNCHANGED <<pc, files, tables, data, loaded_from, ranking, kpis,
                   details, verified, label, view>>

SpecNames == InitNames /\ [][normalize_name]_vars

\* ------------------------------------------------------- period predecessors
LabelFragments == {<<"2", "0">>, <<"1", "9">>, <<"2", "4">>, <<"2", "5">>,
                   <<"H", "1">>, <<"2">>, <<"1">>, <<"H">>}

LabelInputs == YearSet \cup {Concat(ps) : ps \in SeqsUpTo(LabelFragments, MaxParts)}

InitPeriod ==
    /\ files = NoFiles /\ tables = NoTables
    /\ data = NoTables /\ loaded_from = NoTables
    /\ ranking = None /\ kpis = None
    /\ details = None /\ verified = None /\ view = None /\ name = None
    /\ pc = "period"
    /\ \E l \in LabelInputs : label = [selected_year |-> l, chain |-> <<>>]

\* get_previous_year on the selected label, then on each label it returns.
call_get_previous_year ==
    /\ label # None
    /\ \/ /\ label.chain = <<>>
          /\ label' = [label EXCEPT
                !.chain = <<get_previous_year(label.selected_year)>>]
       \/ /\ label.chain # <<>>
          /\ label.chain[Len(label.chain)] # None
          /\ label' = [label EXCEPT
                !.chain = Append(@, get_previous_year(@[Len(@)][1]))]
    /\ UNCHANGED <<pc, files, tables, data, loaded_from, ranking, kpis,
                   details, verified, name, view>>

SpecPeriod == InitPeriod /\ [][call_get_previous_year]_vars

\* ------------------------------------------------------- candidate files
PlainTable == Table({}, <<Row(Dior, OneHot("Product", 1), 1)>>)

YearSingles == {{y} : y \in YearSet}

InitLoad ==
    \E S \in {{}} \cup YearSingles \cup YearPairs :
        \E e \in [S -> SUBSET Kinds \ {{}}] :
            /\ files = [y \in YearSet |-> IF y \in S THEN e[y] ELSE {}]
            /\ tables = [k \in Keys |-> IF k \in S THEN Some(PlainTable) ELSE None]
            /\ data = NoTables /\ loaded_from = NoTables
            /\ ranking = None /\ kpis = None
            /\ details = None /\ verified = None /\ view = None
            /\ name = None /\ label = None
            /\ pc = "start"

SpecLoad == InitLoad /\ [][load_data]_vars

\* ------------------------------------------------ the views of the dashboard
\* The category cell of the first row only (df[category].iloc[0]).
ColFirstRow(rows, c) == IF rows = <<>> THEN 0 ELSE Head(rows).cnt[c]

\* df[category].sum()
RECURSIVE ColSumRows(_, _)
ColSumRows(rows, c) ==
    IF rows = <<>> THEN 0 ELSE Head(rows).cnt[c] + ColSumRows(Tail(rows), c)

ColSum(df, c) == ColSumRows(df.rows, c)

\* df['Total_Mentions'].sum()
RECURSIVE TotalSumRows(_)
TotalSumRows(rows) ==
    IF rows = <<>> THEN 0 ELSE Head(rows).Total_Mentions + TotalSumRows(Tail(rows))

\* The loaded years in the order of the `years` list.
LoadedSeq(d) == SelectSeq(Years, LAMBDA y : d[y] # None)

\* The ten (year, category, total) entries of one loaded year.
year_chart_data(d, year) ==
    [k \in 1..Len(Categories) |->
        [Year |-> year, Category |-> Categories[k],
         Mentions |-> ColSum(Df(d, year), Categories[k])]]

RECURSIVE chart_data_of(_, _)
chart_data_of(d, ys) ==
    IF ys = <<>> THEN <<>>
    ELSE year_chart_data(d, Head(ys)) \o chart_data_of(d, Tail(ys))

\* create_total_mentions_chart(data): year_df[category] raises KeyError when
\* a loaded table lacks the column; None when no year is loaded.
create_total_mentions_chart(d) ==
    IF \E y \in LoadedYears(d) : Df(d, y).missing \cap CategorySet # {}
    THEN Raised("KeyError")
    ELSE IF LoadedSeq(d) = <<>> THEN NoFigure
    ELSE [fig |-> TRUE, chart_data |-> chart_data_of(d, LoadedSeq(d))]

\* display_category_view, part 1: the total of the selected category per
\* loaded year; a year whose table lacks the column is passed over.
year_totals(d, selected_category) ==
    LET ys == SelectSeq(LoadedSeq(d),
                LAMBDA y : selected_category \notin Df(d, y).missing)
    IN [k \in 1..Len(ys) |->
           [Year |-> ys[k], Total |-> ColSum(Df(d, ys[k]), selected_category)]]

\* The stripped non-empty cells of a details row in the given columns.
RECURSIVE activities_in(_, _, _)
activities_in(index, row, cols) ==
    IF cols = <<>> THEN <<>>
    ELSE (IF /\ HasCol(index, Head(cols))
             /\ row[Position(index, Head(cols))] # None
             /\ Strip(row[Position(index, Head(cols))][1]) # <<>>
          THEN <<Strip(row[Position(index, Head(cols))][1])>>
          ELSE <<>>)
         \o activities_in(index, row, Tail(cols))

\* display_category_view, part 2: per details row of every loaded details
\* table, the activities in the columns whose name starts with the category.
activities_data(d, selected_category) ==
    {[Maison |-> Maison(d[details_key(y)][1].index, d[details_key(y)][1].rows[i]),
      Year |-> y,
      activities |->
          activities_in(d[details_key(y)][1].index, d[details_key(y)][1].rows[i],
              SelectSeq(d[details_key(y)][1].index,
                  LAMBDA col : StartsWith(col, CatChars[selected_category]))),
      row |-> i] :
        <<y, i>> \in {x \in YearSet \X (1..MaxRows) :
            /\ d[details_key(x[1])] # None
            /\ x[2] <= Len(d[details_key(x[1])][1].rows)}}

display_category_view(d, selected_category) ==
    [year_totals |-> year_totals(d, selected_category),
     activities_data |->
        {a \in activities_data(d, selected_category) : a.activities # <<>>}]

\* detail_categories[category]: the columns Category_1 .. Category_k.
detail_columns(category) ==
    [i \in 1..category_columns[category] |-> Col(category, i)]

\* The rows of a details table whose Maison cell equals maison.
DetailRowsOf(dt, maison) ==
    SelectSeq(dt.rows, LAMBDA row : Maison(dt.index, row) = maison)

\* display_maison_details(data, selected_maison, selected_year)
display_maison_details(d, selected_maison) ==
    LET available_years ==
            SelectSeq(LoadedSeq(d),
                LAMBDA y : RowsOfMaison(Df(d, y), selected_maison) # <<>>)
        with_details ==
            {y \in YearSet :
                /\ \E k \in 1..Len(available_years) : available_years[k] = y
                /\ d[details_key(y)] # None
                /\ DetailRowsOf(d[details_key(y)][1], selected_maison) # <<>>}
    IN  IF available_years = <<>> THEN [found |-> FALSE]
        ELSE IF \E k \in 1..Len(available_years) :
                    Df(d, available_years[k]).missing \cap CategorySet # {}
        THEN Raised("KeyError")
        ELSE [found |-> TRUE,
              available_years |-> available_years,
              chart_data |->
                 [k \in 1..Len(available_years) |->
                    [Year |-> available_years[k],
                     Mentions |->
                        RowsOfMaison(Df(d, available_years[k]),
                                     selected_maison)[1].cnt]],
              activity_data |->
                 {a \in {[Category |-> c, Year |-> y,
                          activities |->
                            activities_in(d[details_key(y)][1].index,
                                DetailRowsOf(d[details_key(y)][1],
                                             selected_maison)[1],
                                detail_columns(c))] :
                            c \in CategorySet, y \in with_details} :
                    a.activities # <<>>}]

\* Only the first of the tied leaders is written into the cell.
tied_maisons_first(names) == IF names = <<>> THEN <<>> ELSE names[1]

\* ', '.join(tied_maisons)
RECURSIVE join_names(_)
join_names(names) ==
    IF names = <<>> THEN <<>>
    ELSE IF Len(names) = 1 THEN names[1]
    ELSE names[1] \o <<",", " ">> \o join_names(Tail(names))

\* leaders_data: one entry per category whose leaders frame is not empty, in
\* the order of the categories.
leaders_data(category_leaders) ==
    LET cats == SelectSeq(Categories, LAMBDA c : category_leaders[c] # <<>>)
    IN [k \in 1..Len(cats) |->
          [Category |-> cats[k],
           Maison |-> join_names([i \in 1..Len(category_leaders[cats[k]]) |->
                                     category_leaders[cats[k]][i].Maison]),
           Mentions |-> category_leaders[cats[k]][1].cnt[cats[k]],
           Total_Mentions |-> category_leaders[cats[k]][1].Total_Mentions]]

\* The order of sort_values(['Mentions', 'Category'], ascending=[False, True]).
leader_before(a, b) ==
    \/ a.Mentions > b.Mentions
    \/ /\ a.Mentions = b.Mentions
       /\ StrLess(CatChars[a.Category], CatChars[b.Category])

RECURSIVE insert_leader(_, _)
insert_leader(r, s) ==
    IF s = <<>> THEN <<r>>
    ELSE IF leader_before(Head(s), r) THEN <<Head(s)>> \o insert_leader(r, Tail(s))
    ELSE <<r>> \o s

RECURSIVE sort_leaders(_)
sort_leaders(s) ==
    IF s = <<>> THEN <<>> ELSE insert_leader(Head(s), sort_leaders(Tail(s)))

\* prev_data: the previous year's leaders, per category that has any.
prev_data(prev_category_leaders) ==
    {[Category |-> c,
      Previous_Maison |-> join_names([i \in 1..Len(prev_category_leaders[c]) |->
                                        prev_category_leaders[c][i].Maison]),
      Previous_Mentions |-> prev_category_leaders[c][1].cnt[c]] :
        c \in {x \in DOMAIN prev_category_leaders :
                    prev_category_leaders[x] # <<>>}}

\* The Category Leaders table of main: leaders_data sorted, then left-merged
\* with prev_data on Category when there is any; nothing is shown without
\* leaders.
category_leaders_table(k) ==
    LET rows == sort_leaders(leaders_data(k.category_leaders[1]))
        prev == prev_data(k.prev_category_leaders[1])
    IN  IF rows = <<>> THEN [shown |-> FALSE]
        ELSE [shown |-> TRUE,
              previous_columns |-> prev # {},
              rows |-> [i \in 1..Len(rows) |->
                          [leader |-> rows[i],
                           previous |->
                              {p \in prev : p.Category = rows[i].Category}]]]

\* main, Overview mode, for the selected year.  The sidebar loop over the
\* seven years leaves year_key at the last label of the list, and the KPI
\* cards read data[year_key].
overview(d, selected_year, ord, prev_ord) ==
    LET k == get_kpis(d, selected_year, ord, prev_ord)
        year_key == Years[Len(Years)]
        prev_year == get_previous_year(selected_year)
    IN  IF IsRaised(k) THEN k
        ELSE IF k.most_mentioned = None THEN [rendered |-> FALSE]
        ELSE IF d[year_key] = None THEN Raised("KeyError")
        ELSE IF "Total_Mentions" \in Df(d, year_key).missing
            THEN Raised("KeyError")
        ELSE IF /\ k.prev_most_mentioned # None
                /\ prev_year # None
                /\ d[prev_year[1]] # None
                /\ "Total_Mentions" \in Df(d, prev_year[1]).missing
            THEN Raised("KeyError")
        ELSE IF IsRaised(create_total_mentions_chart(d))
            THEN create_total_mentions_chart(d)
        ELSE IF IsRaised(create_stacked_bar_chart(d, selected_year, 10))
            THEN create_stacked_bar_chart(d, selected_year, 10)
        ELSE IF IsRaised(create_cross_year_ranking(d))
            THEN create_cross_year_ranking(d)
        ELSE [rendered |-> TRUE,
              kpis |-> k,
              total_mentions |-> TotalSumRows(Df(d, year_key).rows),
              total_maisons |-> Len(Df(d, year_key).rows),
              total_chart |-> create_total_mentions_chart(d),
              leaders_df |-> category_leaders_table(k),
              fig |-> create_stacked_bar_chart(d, selected_year, 10),
              cross_year_df |-> create_cross_year_ranking(d)]

\* ------------------------------------------------------ dashboard sessions
\* Values of top_n: main passes 10; smaller values cut inside the table.
TopNs == {1, 2, 10}

\* Previous-year style tables: one or two rows naming any Maisons.
NamedTables ==
    {Table({}, <<Row(m, OneHot("Awards", 2), 2)>>) : m \in {Dior, Fendi, Loewe}}
    \cup
    {Table({}, <<Row(m1, OneHot("Awards", 2), 2), Row(m2, OneHot("Place", 1), 1)>>) :
        <<m1, m2>> \in {x \in {Dior, Fendi, Loewe} \X {Dior, Fendi, Loewe} :
                            x[1] # x[2]}}

\* Tables that lack a category column (or the stored total).
LackingTables ==
    {Table({c}, <<Row(Dior, Uniform(1), 10), Row(Fendi, OneHot("Place", 2), 2)>>) :
        c \in {"Awards", "Product", "Total_Mentions"}}

AdjacentPairs == {<<Y2023, Y2024>>, <<Y2024, Y2025H1>>, <<Y2019, Y2020>>,
                  <<Y2021, Y2024>>}

\* Tables of the last period with several categories led, some by a tie.
LeaderTables ==
    {KpiTable({}, cs) :
        cs \in [1..3 -> {OneHot("Product", MaxCount), OneHot("Awards", MaxCount),
                         OneHot("Awards", 1), Uniform(MaxCount)}]}

InitViews ==
    \/ \E f \in [{Y2024} -> KpiTables] : OnDisk({Y2024}, f, "original")
    \/ \E f \in [{Y2025H1} -> LeaderTables] : OnDisk({Y2025H1}, f, "original")
    \/ \E p \in AdjacentPairs : \E a \in NamedTables, b \in KpiSmallTables :
        OnDisk({p[1], p[2]}, (p[1] :> a) @@ (p[2] :> b), "original")
    \/ \E S \in SUBSET YearSet :
        OnDisk(S, [y \in S |-> PlainTable], "standardized")
    \/ \E p \in AdjacentPairs : \E a \in LackingTables, swap \in BOOLEAN :
        OnDisk({p[1], p[2]},
               IF swap THEN (p[1] :> a) @@ (p[2] :> PlainTable)
                       ELSE (p[1] :> PlainTable) @@ (p[2] :> a),
               "verified")

\* main in Overview mode; the selectbox offers the loaded years only.
render_overview ==
    /\ pc = "loaded"
    /\ \E y \in LoadedYears(data) :
         \E ord \in AnyOrder(data, y), prev_ord \in PrevOrder(data, y) :
            view' = [op |-> "overview", selected_year |-> y,
                     result |-> overview(data, y, ord, prev_ord)]
    /\ pc' = "viewed"
    /\ UNCHANGED <<files, tables, data, loaded_from, ranking, kpis, details,
                   verified, name, label>>

call_create_stacked_bar_chart ==
    /\ pc = "loaded"
    /\ \E y \in YearSet, n \in TopNs :
            view' = [op |-> "create_stacked_bar_chart", selected_year |-> y,
                     top_n |-> n,
                     result |-> create_stacked_bar_chart(data, y, n)]
    /\ pc' = "viewed"
    /\ UNCHANGED <<files, tables, data, loaded_from, ranking, kpis, details,
                   verified, name, label>>

call_create_total_mentions_chart ==
    /\ pc = "loaded"
    /\ view' = [op |-> "create_total_mentions_chart",
                result |-> create_total_mentions_chart(data)]
    /\ pc' = "viewed"
    /\ UNCHANGED <<files, tables, data, loaded_from, ranking, kpis, details,
                   verified, name, label>>

\* main with a category selected in the sidebar.
call_display_category_view ==
    /\ pc = "loaded"
    /\ \E c \in CategorySet :
            view' = [op |-> "display_category_view", selected_category |-> c,
                     result |-> display_category_view(data, c)]
    /\ pc' = "viewed"
    /\ UNCHANGED <<files, tables, data, loaded_from, ranking, kpis, details,
                   verified, name, label>>

\* main in Single Maison mode.
call_display_maison_details ==
    /\ pc = "loaded"
    /\ \E m \in {Dior, Fendi, Loewe} :
            view' = [op |-> "display_maison_details", selected_maison |-> m,
                     result |-> display_maison_details(data, m)]
    /\ pc' = "viewed"
    /\ UNCHANGED <<files, tables, data, loaded_from, ranking, kpis, details,
                   verified, name, label>>

\* calculate_total_mentions(df) on a caller's table: the assignment
\* df['Total_Mentions'] = ... writes into the table that was passed, and
\* that same table is returned.
call_calculate_total_mentions ==
    /\ pc = "loaded"
    /\ \E y \in LoadedYears(data) :
            view' = [op |-> "calculate_total_mentions",
                     passed |-> Df(data, y),
                     passed_after |->
                        IF IsRaised(calculate_total_mentions(Df(data, y)))
                        THEN Df(data, y)
                        ELSE calculate_total_mentions(Df(data, y)),
                     result |-> calculate_total_mentions(Df(data, y))]
    /\ pc' = "viewed"
    /\ UNCHANGED <<files, tables, data, loaded_from, ranking, kpis, details,
                   verified, name, label>>

NextViews ==
    \/ load_data
    \/ render_overview
    \/ call_get_kpis
    \/ call_create_cross_year_ranking
    \/ call_create_stacked_bar_chart
    \/ call_create_total_mentions_chart
    \/ call_display_category_view
    \/ call_display_maison_details
    \/ call_calculate_total_mentions

SpecViews == InitViews /\ [][NextViews]_vars

\* ------------------------------------------------------ one year that fails
\* A dashboard directory in which one year's mentions file cannot be read or
\* lacks the Total_Mentions column, next to years that are in order.
BrokenTables ==
    {Unreadable, Table({"Total_Mentions"}, <<Row(Fendi, OneHot("Place", 2), 0)>>)}

InitBroken ==
    \E S \in YearPairs \cup YearSingles : \E bad \in S, b \in BrokenTables :
        OnDisk(S, [y \in S |-> IF y = bad THEN b ELSE PlainTable], "original")

InitLocal == InitMain \/ InitBroken

NextLocal ==
    \/ main_standardized_verified
    \/ main_verified_mentions
    \/ load_data
    \/ call_create_cross_year_ranking

SpecLocal == InitLocal /\ [][NextLocal]_vars

\* --------------------------------------------------------- compare_mentions
\* The pairs (left row, right row) of equal Maison for one left row.
pairs_of(l, right) ==
    LET hits == SelectSeq(right, LAMBDA r : r.Maison = l.Maison)
    IN [k \in 1..Len(hits) |-> [original |-> l, verified |-> hits[k]]]

\* A merge keeping every left row: a left row without a partner is paired
\* with a row of zero counts (how='left', gaps read as 0).
RECURSIVE merge_left(_, _)
merge_left(left, right) ==
    IF left = <<>> THEN <<>>
    ELSE (IF pairs_of(Head(left), right) = <<>>
          THEN <<[original |-> Head(left),
                  verified |-> Row(Head(left).Maison, Uniform(0), 0)]>>
          ELSE pairs_of(Head(left), right))
         \o merge_left(Tail(left), right)

\* left.merge(right, on='Maison'): the inner join, in the order of the left
\* rows.
RECURSIVE merge(_, _)
merge(left, right) ==
    IF left = <<>> THEN <<>>
    ELSE pairs_of(Head(left), right) \o merge(Tail(left), right)

\* df['Maison'].str.replace('Bvlgari', 'Bulgari', regex=False)
standardized(df) ==
    [i \in RowIdx(df) |-> [df.rows[i] EXCEPT !.Maison = normalize(@)]]

\* The differences of one merged row, category by category.
row_differences(pair) ==
    LET cats == SelectSeq(Categories,
                    LAMBDA c : pair.original.cnt[c] # pair.verified.cnt[c])
    IN [k \in 1..Len(cats) |->
           [Maison |-> pair.original.Maison, Category |-> cats[k],
            Original |-> pair.original.cnt[cats[k]],
            Verified |-> pair.verified.cnt[cats[k]],
            Difference |-> pair.verified.cnt[cats[k]] - pair.original.cnt[cats[k]]]]

RECURSIVE all_differences(_)
all_differences(comparison) ==
    IF comparison = <<>> THEN <<>>
    ELSE row_differences(Head(comparison)) \o all_differences(Tail(comparison))

\* compare_mentions(year): returns early when either file is missing;
\* selecting the category columns raises KeyError when one is absent.
compare_mentions(original_file, verified_file) ==
    IF original_file = None \/ verified_file = None THEN [found |-> FALSE]
    ELSE IF (original_file[1].missing \cup verified_file[1].missing)
                \cap CategorySet # {}
    THEN Raised("KeyError")
    ELSE [found |-> TRUE,
          differences |->
            all_differences(merge(standardized(original_file[1]),
                                  standardized(verified_file[1])))]

\* Mentions tables of compare_data.py: one or two rows, any spelling.
CompareTables ==
    {Table({}, <<Row(m, OneHot("Product", v), v)>>) :
        m \in Spellings, v \in 0..MaxCount}
    \cup
    {Table({}, <<Row(m1, OneHot("Product", v), v), Row(m2, OneHot("Awards", 1), 1)>>) :
        <<m1, m2>> \in {x \in Spellings \X Spellings :
                            normalize(x[1]) # normalize(x[2])},
        v \in 0..MaxCount}

InitCompare ==
    /\ files = NoFiles /\ tables = NoTables
    /\ data = NoTables /\ loaded_from = NoTables
    /\ ranking = None /\ kpis = None
    /\ details = None /\ verified = None /\ name = None /\ label = None
    /\ pc = "compare"
    /\ \E o, v \in {None} \cup {Some(t) : t \in CompareTables} :
            view = [op |-> "compare_mentions", original_file |-> o,
                    verified_file |-> v, result |-> None]

\* compare_data.py: compare_mentions(year)
call_compare_mentions ==
    /\ pc = "compare"
    /\ view' = [view EXCEPT !.result =
                    Some(compare_mentions(view.original_file, view.verified_file))]
    /\ pc' = "compared"
    /\ UNCHANGED <<files, tables, data, loaded_from, ranking, kpis, details,
                   verified, name, label>>

\* Details tables of the dashboard: rows for one or two Maisons, a Product
\* cell that may be NaN or padded, and an Awards cell.
PaddedCell == <<" ", "x", " ">>

DashDetails ==
    LET index == <<MaisonCol, YearCol, Col("Product", 1), Col("Awards", 1)>>
        row(m, p) == <<Some(m), None, p, Some(OpenedStore)>>
        cells == {None, Some(PaddedCell)}
    IN  {DetailsTable(index, <<row(m, p)>>) : m \in {Dior, Fendi}, p \in cells}
        \cup {DetailsTable(index, <<row(Dior, p), row(Fendi, q)>>) :
                p \in cells, q \in cells}

\* Two years of mentions files, each with or without its details file.
InitDetails ==
    \E a \in NamedTables, da, db \in {None} \cup {Some(t) : t \in DashDetails} :
        /\ files = [y \in YearSet |->
                        IF y \in {Y2023, Y2024} THEN {"original"} ELSE {}]
        /\ tables = [k \in Keys |->
                        IF k = Y2023 THEN Some(a)
                        ELSE IF k = Y2024 THEN Some(PlainTable)
                        ELSE IF k = details_key(Y2023) THEN da
                        ELSE IF k = details_key(Y2024) THEN db
                        ELSE None]
        /\ data = NoTables /\ loaded_from = NoTables
        /\ ranking = None /\ kpis = None
        /\ details = None /\ verified = None /\ view = None
        /\ name = None /\ label = None
        /\ pc = "start"

InitRelate == InitCompare \/ InitDetails

NextRelate ==
    \/ call_compare_mentions
    \/ load_data
    \/ call_display_maison_details
    \/ call_display_category_view

SpecRelate == InitRelate /\ [][NextRelate]_vars

\* ------------------------------------------------------------- the banner
\* main: verified_years, the years whose *_maison_mentions_verified.xlsx
\* exists and whose mentions table is loaded, in the order of `years`.
verified_years(fs, d) ==
    SelectSeq(Years, LAMBDA y : "verified" \in fs[y] /\ d[y] # None)

\* main: st.success("Using verified mention counts for: ...") when the list
\* is not empty, st.info("Using original mention counts") otherwise.
show_banner ==
    /\ pc = "loaded"
    /\ view' = [op |-> "banner",
                verified_years |-> verified_years(files, data),
                success |-> verified_years(files, data) # <<>>]
    /\ pc' = "viewed"
    /\ UNCHANGED <<files, tables, data, loaded_from, ranking, kpis, details,
                   verified, name, label>>

NextBanner == load_data \/ show_banner

SpecBanner == InitLoad /\ [][NextBanner]_vars

\* ------------------------------------------------ count_mentions_in_details
\* The 25 fixed activity columns, category by category.
RECURSIVE fixed_columns(_)
fixed_columns(n) ==
    IF n = 0 THEN <<>>
    ELSE fixed_columns(n - 1) \o detail_columns(Categories[n])

\* The category a fixed column belongs to.
category_of(col) == CHOOSE c \in CategorySet : StartsWith(col, CatChars[c] \o <<"_">>)

\* Details rows over all the fixed columns (each category filled or left
\* NaN as a whole), and rows with the five Product columns next to a column
\* Product_x that is no fixed column.
InitCount ==
    /\ files = NoFiles /\ tables = NoTables
    /\ data = NoTables /\ loaded_from = NoTables
    /\ ranking = None /\ kpis = None /\ verified = None
    /\ name = None /\ label = None /\ view = None
    /\ pc = "generate"
    /\ \/ \E f \in [CategorySet -> {None, Some(OpenedStore)}] :
            details = DetailsTable(
                <<MaisonCol, YearCol>> \o fixed_columns(Len(Categories)),
                <<<<Some(Dior), Some(Y2024)>> \o
                  [k \in 1..Len(fixed_columns(Len(Categories))) |->
                      f[category_of(fixed_columns(Len(Categories))[k])]]>>)
       \/ \E c \in [1..6 -> {None, Some(OpenedStore), Some(<<" ">>)}] :
            details = DetailsTable(
                <<MaisonCol, YearCol, Col("Product", 1), Col("Product", 2),
                  Col("Product", 3), Col("Product", 4), Col("Product", 5),
                  CatChars["Product"] \o <<"_", "x">>>>,
                <<<<Some(Dior), Some(Y2024), c[1], c[2], c[3], c[4], c[5], c[6]>>>>)
       \/ \E c \in [1..2 -> {None, Some(OpenedStore)}] :
            details = DetailsTable(
                <<MaisonCol, YearCol, Col("Product", 2), Col("Awards", 1)>>,
                <<<<Some(Dior), Some(Y2024), c[1], c[2]>>>>)

\* count_mentions_in_details(row, category) for any category string a caller
\* passes, one of the ten or not.
call_count_mentions_in_details ==
    /\ pc = "generate"
    /\ \E category \in CategorySet \cup {"Other"} :
            view' = [op |-> "count_mentions_in_details", category |-> category,
                     result |-> count_mentions_in_details(
                                    details.index, details.rows[1], category)]
    /\ pc' = "counted"
    /\ UNCHANGED <<files, tables, data, loaded_from, ranking, kpis, details,
                   verified, name, label>>

NextCount == call_count_mentions_in_details \/ generate_verified_mentions

SpecCount == InitCount /\ [][NextCount]_vars

\* ----------------------------------------------------------- clean_citations
\* Texts longer than the generated cells: nested and repeated tokens.
NestedTokens == <<"[", "[", "x", "]", "]">>
TwoTokens == <<"[", "x", "]", " ", "[", "]", "x">>
TokenBetween == <<"x", " ", "[", "x", "]", " ", "x">>

InitClean ==
    /\ files = NoFiles /\ tables = NoTables
    /\ data = NoTables /\ loaded_from = NoTables
    /\ ranking = None /\ kpis = None
    /\ details = None /\ verified = None /\ name = None /\ label = None
    /\ pc = "clean"
    /\ \E t \in AllCells
                \cup {Some(NestedTokens), Some(TwoTokens), Some(TokenBetween),
                      Some(LaunchedX)}
                \cup {Number(n) : n \in 0..MaxCount} :
            view = [op |-> "clean_citations", text |-> t, passes |-> <<>>]

\* clean_citations applied to the text, then to what it returned.
call_clean_citations ==
    /\ pc = "clean"
    /\ Len(view.passes) < MaxPasses
    /\ view' = [view EXCEPT !.passes =
                    Append(@, clean_citations(
                                IF @ = <<>> THEN view.text ELSE @[Len(@)]))]
    /\ UNCHANGED <<pc, files, tables, data, loaded_from, ranking, kpis,
                   details, verified, name, label>>

SpecClean == InitClean /\ [][call_clean_citations]_vars

(***************************************************************************)
(* The claims.                                                             *)
(***************************************************************************)
Out == ranking[1].rows
Ranked == pc = "ranked" /\ ~IsRaised(ranking[1])

\* The sum of the ten category cells of a row, written out.
TenSum(cnt) ==
    cnt["Product"] + cnt["Place"] + cnt["Partnership"] + cnt["ESG"] +
    cnt["Performance"] + cnt["Digital"] + cnt["Pricing"] + cnt["Promotion"] +
    cnt["People"] + cnt["Awards"]

\* 1 + the number of rows of the table whose Total_Mentions is strictly greater.
CompetitionRank(df, i) ==
    1 + Cardinality({j \in RowIdx(df) :
            df.rows[j].Total_Mentions > df.rows[i].Total_Mentions})

\* The rows of the cross-year table that stand for the Maison named m.
RowsOf(m) == {k \in DOMAIN Out : Out[k].Maison \in {m, normalize(m)}}

\* C1: in the cross-year table, for every loaded year and every Maison with
\* a row in that year, the reported rank is 1 + the number of rows of that
\* year with a strictly greater Total_Mentions (competition ranking).
C1_CompetitionRanking ==
    Ranked =>
        \A y \in LoadedYears(data) : \A i \in RowIdx(Df(data, y)) :
            \E k \in RowsOf(Df(data, y).rows[i].Maison) :
                Out[k].rank[y] = Some(CompetitionRank(Df(data, y), i))

\* Apart from the 'Bvlgari' rows (C5), every reported rank is the competition
\* rank of the Maison's stored total within its year.
RankOfCanonicalNames ==
    Ranked =>
        \A y \in LoadedYears(data) : \A i \in RowIdx(Df(data, y)) :
            normalize(Df(data, y).rows[i].Maison) = Df(data, y).rows[i].Maison =>
                \E k \in DOMAIN Out :
                    /\ Out[k].Maison = Df(data, y).rows[i].Maison
                    /\ Out[k].rank[y] = Some(CompetitionRank(Df(data, y), i))

\* C2: after calculate_total_mentions, and in every row the two generators
\* emit, Total_Mentions is the sum of the row's ten category counts.
C2_TotalIsSumOfCategories ==
    /\ (pc = "kpis" /\ kpis.current_df # None /\ ~IsRaised(kpis.current_df[1])) =>
            \A i \in RowIdx(kpis.current_df[1]) :
                kpis.current_df[1].rows[i].Total_Mentions =
                    TenSum(kpis.current_df[1].rows[i].cnt)
    /\ (pc = "generated" /\ ~IsRaised(verified.table)) =>
            \A i \in RowIdx(verified.table) :
                verified.table.rows[i].Total_Mentions =
                    TenSum(verified.table.rows[i].cnt)

\* C2 witness: a table whose stored total is stale went through
\* calculate_total_mentions and its row now totals its ten cells.
C2_Witness ==
    /\ pc = "kpis" /\ kpis.current_df # None /\ ~IsRaised(kpis.current_df[1])
    /\ \E i \in RowIdx(kpis.current_df[1]) :
          /\ kpis.current_df[1].rows[i].Total_Mentions = Len(Categories)
          /\ \E j \in RowIdx(Df(data, kpis.selected_year)) :
                /\ Df(data, kpis.selected_year).rows[j].Maison =
                        kpis.current_df[1].rows[i].Maison
                /\ Df(data, kpis.selected_year).rows[j].Total_Mentions = 0

\* C3: the <year>_mentions value of a Maison, and the value its rank is
\* computed from, is the sum of the ten category counts of its row in the
\* loaded table, also when the stored Total_Mentions differs or is absent.
\* (Stated for the rows whose name needs no normalization.)
C3_TotalRecomputedNotTrusted ==
    pc = "ranked" =>
        /\ ~IsRaised(ranking[1])
        /\ \A y \in LoadedYears(data) : \A i \in RowIdx(Df(data, y)) :
            LET df == Df(data, y)
            IN normalize(df.rows[i].Maison) = df.rows[i].Maison =>
                \E k \in DOMAIN Out :
                    /\ Out[k].Maison = df.rows[i].Maison
                    /\ Out[k].mentions[y] = TenSum(df.rows[i].cnt)
                    /\ Out[k].rank[y] =
                        Some(1 + Cardinality({j \in RowIdx(df) :
                            TenSum(df.rows[j].cnt) > TenSum(df.rows[i].cnt)}))

\* C4: normalizing a normalized name changes nothing, and both 'Bvlgari'
\* and 'Bulgari' normalize to 'Bulgari'.
C4_NormalizeIdempotent ==
    pc = "normalize" =>
        /\ \A k \in 2..Len(name.passes) : name.passes[k] = name.passes[1]
        /\ (name.raw \in {Bvlgari, Bulgari} /\ name.passes # <<>>) =>
                name.passes[1] = Bulgari

\* C4 witness: a name holding the misspelling twice has been normalized twice.
C4_Witness ==
    /\ pc = "normalize"
    /\ name.raw = Bvlgari \o Bvlgari
    /\ name.passes = <<Bulgari \o Bulgari, Bulgari \o Bulgari>>

\* C5: no row of the cross-year table is named 'Bvlgari'; the 'Bulgari' row
\* carries the mentions and rank of a year whose table says 'Bvlgari'; every
\* row has a rank in at least one loaded year.
C5_NormalizedBeforeUnion ==
    Ranked =>
        /\ \A k \in DOMAIN Out : Out[k].Maison # Bvlgari
        /\ \A k \in DOMAIN Out : \E y \in LoadedYears(data) : Out[k].rank[y] # None
        /\ \A y \in LoadedYears(data) : \A i \in RowIdx(Df(data, y)) :
            Df(data, y).rows[i].Maison = Bvlgari =>
                \E k \in DOMAIN Out :
                    /\ Out[k].Maison = Bulgari
                    /\ Out[k].mentions[y] = Df(data, y).rows[i].Total_Mentions
                    /\ Out[k].rank[y] = Some(CompetitionRank(Df(data, y), i))

\* The rows of year y that belong to the Maison named m.
RowsNamed(y, m) ==
    {i \in RowIdx(Df(data, y)) :
        normalize(Df(data, y).rows[i].Maison) = normalize(m)}

\* C6: every Maison of any year's table has a row in the cross-year table
\* holding, for each year with data for it, that year's (mentions, rank)
\* and, for each other year, (0, null).  (Years: the loaded ones.)
C6_CrossYearUnion ==
    Ranked =>
        \A m \in all_maisons(data) :
            \E k \in RowsOf(m) :
                \A y \in LoadedYears(data) :
                    IF RowsNamed(y, m) = {}
                    THEN Out[k].mentions[y] = 0 /\ Out[k].rank[y] = None
                    ELSE \E i \in RowsNamed(y, m) :
                        /\ Out[k].mentions[y] = Df(data, y).rows[i].Total_Mentions
                        /\ Out[k].rank[y] = Some(CompetitionRank(Df(data, y), i))

\* The (Maison, cells) pairs of a sequence of rows.
Entries(rs) == {<<rs[i].Maison, rs[i].cnt>> : i \in 1..Len(rs)}

\* The rows at the top of category c, when some row holds more than 1.
TopOf(df, c) ==
    IF \E i \in RowIdx(df) : df.rows[i].cnt[c] > 1
    THEN {<<df.rows[i].Maison, df.rows[i].cnt>> : i \in
            {i \in RowIdx(df) : \A j \in RowIdx(df) :
                df.rows[j].cnt[c] <= df.rows[i].cnt[c]}}
    ELSE {}

KpisDone ==
    /\ pc = "kpis"
    /\ data[kpis.selected_year] # None
    /\ ~IsRaised(kpis.result)

PrevLoaded ==
    /\ get_previous_year(kpis.selected_year) # None
    /\ data[get_previous_year(kpis.selected_year)[1]] # None

\* C7: the leaders of each category are exactly the rows at the year's
\* maximum of that category when the maximum is above 1, and none when it
\* is 0 or 1; the previous year's leaders follow the same rule on the
\* previous year's table.
C7_CategoryLeaders ==
    KpisDone =>
        /\ \A c \in CategorySet :
            Entries(kpis.result.category_leaders[1][c]) =
                TopOf(Df(data, kpis.selected_year), c)
        /\ PrevLoaded =>
            \A c \in CategorySet :
                Entries(kpis.result.prev_category_leaders[1][c]) =
                    TopOf(Df(data, get_previous_year(kpis.selected_year)[1]), c)

\* C7 witness: two Maisons tied at 2 are both leaders of one category,
\* another category peaks at 1 and has none, and the previous year has a
\* leader too.
C7_Witness ==
    /\ KpisDone /\ PrevLoaded
    /\ kpis.selected_year = Y2024
    /\ Len(kpis.result.category_leaders[1]["Product"]) = 2
    /\ \A i \in 1..2 : kpis.result.category_leaders[1]["Product"][i].cnt["Product"] = 2
    /\ \E i \in RowIdx(Df(data, Y2023)) : Df(data, Y2023).rows[i].cnt["Awards"] = 1
    /\ kpis.result.prev_category_leaders[1]["Awards"] = <<>>
    /\ Len(kpis.result.prev_category_leaders[1]["Product"]) = 1

\* The position of a label in the period sequence, 0 when it is not in it.
PeriodIndex(l) ==
    IF \E i \in 1..Len(Years) : Years[i] = l
        THEN CHOOSE i \in 1..Len(Years) : Years[i] = l
        ELSE 0

Predecessor(l) ==
    IF PeriodIndex(l) > 1 THEN Some(Years[PeriodIndex(l) - 1]) ELSE None

\* C8: get_previous_year returns the label just before the given one in the
\* period sequence, null for '2019' and for a label outside the sequence,
\* '2024' for '2025H1'.
C8_PreviousPeriod ==
    (pc = "period" /\ label.chain # <<>>) =>
        /\ label.chain[1] = Predecessor(label.selected_year)
        /\ \A k \in 2..Len(label.chain) :
              label.chain[k] = Predecessor(label.chain[k - 1][1])
        /\ label.selected_year = Y2025H1 => label.chain[1] = Some(Y2024)
        /\ label.selected_year = Y2019 => label.chain[1] = None

\* C8 witness: from '2025H1' the predecessors run back to '2019' and end.
C8_Witness ==
    /\ pc = "period"
    /\ label.selected_year = Y2025H1
    /\ label.chain = <<Some(Y2024), Some(Y2023), Some(Y2022), Some(Y2021),
                       Some(Y2020), Some(Y2019), None>>

\* The text of a cell once trimmed, its citation tokens cut out (each from an
\* opening bracket to the next closing one), and trimmed again.
RECURSIVE TokenEnds(_, _)
TokenEnds(s, from) ==
    IF from > Len(s) THEN {}
    ELSE LET closes == {k \in (from + 1)..Len(s) : s[k] = "]"}
         IN IF s[from] = "[" /\ closes # {}
            THEN LET k == CHOOSE c \in closes : \A d \in closes : c <= d
                 IN (from..k) \cup TokenEnds(s, k + 1)
            ELSE TokenEnds(s, from + 1)

WithoutTokens(s) ==
    LET cut == TokenEnds(s, 1)
        F[i \in 0..Len(s)] ==
            IF i = 0 THEN <<>>
            ELSE IF i \in cut THEN F[i - 1] ELSE Append(F[i - 1], s[i])
    IN F[Len(s)]

IsActivity(cell) ==
    /\ cell # None
    /\ LET t == Strip(WithoutTokens(Strip(cell[1])))
       IN t # <<>> /\ t # Zero /\ Lower(t) # Nan

\* The cells of a details row under the columns '<category>_...'.
ActivityCells(index, row, c) ==
    {k \in 1..Len(index) :
        /\ Len(index[k]) > Len(CatChars[c])
        /\ \A p \in 1..Len(CatChars[c]) : index[k][p] = CatChars[c][p]
        /\ index[k][Len(CatChars[c]) + 1] = "_"
        /\ IsActivity(row[k])}

\* C9: count_activities_for_maison counts, per category, the activity cells
\* that are non-empty after trimming and removing the citation tokens and
\* are neither '0' nor, in any case, 'nan'.
C9_VerifiedCount ==
    (pc = "generated" /\ verified.by = "standardized_verified") =>
        \A i \in 1..Len(details.rows) :
            \E j \in RowIdx(verified.table) :
                /\ verified.table.rows[j].Maison = Maison(details.index, details.rows[i])
                /\ \A c \in CategorySet :
                      verified.table.rows[j].cnt[c] =
                        Cardinality(ActivityCells(details.index, details.rows[i], c))

\* C9 witness: the documented example row yields 2 for its category.
C9_Witness ==
    /\ pc = "generated" /\ verified.by = "standardized_verified"
    /\ Len(details.index) = 8
    /\ SubSeq(details.rows[1], 3, 7) =
          <<Some(LaunchedX), Some(<<>>), Some(Zero), Some(Nan), Some(OpenedStore)>>
    /\ verified.table.rows[1].cnt["Product"] = 2

\* C10: a year for which a verified mentions file exists is loaded from a
\* verified file, never from a raw one.
C10_VerifiedTakesPrecedence ==
    pc = "loaded" =>
        \A y \in YearSet :
            files[y] \cap VerifiedKinds # {} =>
                /\ loaded_from[y] # None
                /\ loaded_from[y][1] \in VerifiedKinds

\* The candidates of a year, in the order load_data is documented to try them.
Priority == <<"standardized_verified", "standardized", "verified", "original">>

\* The first candidate of the priority order that exists.
FirstExisting(exists) ==
    Priority[CHOOSE k \in 1..Len(Priority) :
        /\ Priority[k] \in exists
        /\ \A j \in 1..(k - 1) : Priority[j] \notin exists]

\* C11: for every year the mentions table is read from the first existing
\* file of the order standardized_verified, standardized, verified, original,
\* and mentions_<year> is set exactly when one of the four candidates exists.
C11_FirstExistingCandidate ==
    pc = "loaded" =>
        \A y \in YearSet :
            /\ (data[y] # None) <=> (files[y] # {})
            /\ (loaded_from[y] # None) <=> (files[y] # {})
            /\ files[y] # {} =>
                    /\ loaded_from[y] = Some(FirstExisting(files[y]))
                    /\ data[y] = tables[y]

\* C11 witness: one year has the standardized and the verified file and was
\* read from the standardized one; another year has no file and no key.
C11_Witness ==
    /\ pc = "loaded"
    /\ \E y \in YearSet :
          /\ files[y] = {"standardized", "verified", "original"}
          /\ loaded_from[y] = Some("standardized")
          /\ data[y] # None
    /\ \E y \in YearSet : files[y] = {} /\ data[y] = None

\* Every loaded table has all its columns.
AllComplete == \A y \in LoadedYears(data) : Df(data, y).missing = {}

\* The parts of C12 about the single operations: a year without a file gets
\* no key, no column in the cross-year table and no entry in the totals
\* chart; get_kpis returns four nulls and the stacked chart no figure for it.
MissingYearOmitted ==
    /\ pc # "start" => \A y \in YearSet : files[y] = {} => data[y] = None
    /\ Ranked =>
         \A k \in DOMAIN Out :
            /\ DOMAIN Out[k].mentions = LoadedYears(data)
            /\ DOMAIN Out[k].rank = LoadedYears(data)
    /\ (pc = "viewed" /\ view.op = "create_total_mentions_chart"
            /\ ~IsRaised(view.result) /\ view.result.fig) =>
         \A k \in DOMAIN view.result.chart_data :
            view.result.chart_data[k].Year \in LoadedYears(data)
    /\ (pc = "kpis" /\ data[kpis.selected_year] = None) =>
         kpis.result = NoKpis
    /\ (pc = "viewed" /\ view.op = "create_stacked_bar_chart"
            /\ data[view.selected_year] = None) =>
         view.result = NoFigure

\* C12: a year whose mentions file is missing is omitted by every operation
\* and never causes an error: with complete tables for the loaded years,
\* rendering the Overview for a loaded selected year does not raise,
\* whichever years are missing.
C12_MissingYearNeverAnError ==
    /\ MissingYearOmitted
    /\ (pc = "viewed" /\ view.op = "overview" /\ AllComplete) =>
         ~IsRaised(view.result)

\* The Overview renders whenever the last period of the list is loaded and
\* the tables are complete.
OverviewRendersWithLastPeriod ==
    (pc = "viewed" /\ view.op = "overview" /\ AllComplete
        /\ data[Y2025H1] # None) =>
            (~IsRaised(view.result) /\ view.result.rendered)

\* The loaded years whose table lacks one of the ten category columns.
LackingYears == {y \in LoadedYears(data) : Df(data, y).missing \cap CategorySet # {}}

\* calculate_total_mentions, get_kpis and create_total_mentions_chart raise
\* on a table that lacks a category column.
MissingCategoryRaisesInTotals ==
    /\ (pc = "viewed" /\ view.op = "calculate_total_mentions"
            /\ view.passed.missing \cap CategorySet # {}) =>
         IsRaised(view.result)
    /\ (pc = "kpis" /\ kpis.selected_year \in LackingYears) =>
         IsRaised(kpis.result)
    /\ (pc = "viewed" /\ view.op = "create_total_mentions_chart"
            /\ LackingYears # {}) =>
         IsRaised(view.result)

\* C13: a loaded table lacking a category column makes every aggregation
\* that reads the year's table raise: none goes on without the year or
\* without the category.
C13_MissingCategorySurfaced ==
    /\ MissingCategoryRaisesInTotals
    /\ (pc = "ranked" /\ LackingYears # {}) => IsRaised(ranking[1])
    /\ (pc = "viewed" /\ view.op = "display_category_view"
            /\ \E y \in LackingYears :
                    view.selected_category \in Df(data, y).missing) =>
         IsRaised(view.result)

\* display_category_view leaves out, without an error, the year whose table
\* lacks the selected category.
CategoryViewSkipsLackingYear ==
    (pc = "viewed" /\ view.op = "display_category_view") =>
        \A y \in LoadedYears(data) :
            view.selected_category \in Df(data, y).missing =>
                \A k \in DOMAIN view.result.year_totals :
                    view.result.year_totals[k].Year # y

\* A details file the generator `by` can process.
Processable(by, file) ==
    /\ file # None
    /\ ~IsRaised(file[1])
    /\ HasCol(file[1].index, MaisonCol)
    /\ by = "verified" => HasCol(file[1].index, YearCol)

\* The rows generator `by` derives from a details table.
DerivedRows(by, dt) ==
    IF by = "verified" THEN verified_rows(dt) ELSE standardized_verified_rows(dt)

\* In the generators' main loops every year whose details file is in order
\* gets its output, whatever happens to the other years.
GeneratorsKeepGoing ==
    pc = "main done" =>
        \A y \in GenYearSet :
            Processable(verified.by, details[y]) =>
                /\ verified.years[y].status = "generated"
                /\ Entries(verified.years[y].table.rows) =
                        Entries(DerivedRows(verified.by, details[y][1]))

\* C14: a failure of one year's table leaves the other years processed: the
\* generators' main loops still produce every other year's output, load_data
\* still loads the other years and create_cross_year_ranking still ranks them.
C14_FailuresAreLocal ==
    /\ GeneratorsKeepGoing
    /\ pc \in {"loaded", "load_failed", "ranked"} =>
         \A y \in YearSet :
            (files[y] # {} /\ ~IsRaised(tables[y][1])) => data[y] = tables[y]
    /\ pc = "ranked" =>
         \A y \in LoadedYears(data) :
            "Total_Mentions" \notin Df(data, y).missing =>
                /\ ~IsRaised(ranking[1])
                /\ \A i \in RowIdx(Df(data, y)) : \E k \in DOMAIN Out :
                      /\ Out[k].Maison = normalize(Df(data, y).rows[i].Maison)
                      /\ Out[k].rank[y] # None

\* Witness of the generators' part: a main loop met an unreadable file and a
\* file without the Maison column, and generated another year's output.
GeneratorsKeepGoingWitness ==
    /\ pc = "main done"
    /\ \E y \in GenYearSet : details[y] = Some(Unreadable)
    /\ \E y \in GenYearSet :
          details[y] # None /\ ~IsRaised(details[y][1])
          /\ ~HasCol(details[y][1].index, MaisonCol)
    /\ \E y \in GenYearSet : verified.years[y].status = "generated"

\* The tables of the loaded mapping are, after any view or aggregation of
\* the dashboard, the tables load_data read.
LoadedDataKept ==
    pc \in {"viewed", "kpis", "ranked"} =>
        \A k \in Keys : data[k] = data_read(files, tables, k)

\* C15: no aggregation changes its input: the loaded tables stay as read,
\* and a table passed to calculate_total_mentions has the same columns and
\* cells after the call as before.
C15_InputsNotMutated ==
    /\ LoadedDataKept
    /\ (pc = "viewed" /\ view.op = "calculate_total_mentions") =>
            view.passed_after = view.passed

\* A stacked chart was drawn for a loaded year.
Charted ==
    /\ pc = "viewed" /\ view.op = "create_stacked_bar_chart"
    /\ ~IsRaised(view.result) /\ view.result.fig

\* The position in the selected year's table of the k-th Maison of top_maisons.
TopIdx(k) ==
    CHOOSE i \in RowIdx(Df(data, view.selected_year)) :
        Df(data, view.selected_year).rows[i].Maison = view.result.top_maisons[k]

\* Row i of df comes before row j in the top-n order: greater total (the sum
\* of the ten categories), or equal total and earlier in the table.
Before(df, i, j) ==
    \/ TenSum(df.rows[i].cnt) > TenSum(df.rows[j].cnt)
    \/ TenSum(df.rows[i].cnt) = TenSum(df.rows[j].cnt) /\ i < j

\* C16: top_maisons holds min(n, number of rows) Maisons of the selected
\* year, those of highest total, in descending order of total; equal totals
\* are ordered, and cut off at n, by their order in the table.
C16_TopNSelection ==
    Charted =>
        LET df == Df(data, view.selected_year)
            top == view.result.top_maisons
        IN /\ Len(top) = Min(view.top_n, Len(df.rows))
           /\ \A k \in DOMAIN top : \E i \in RowIdx(df) : df.rows[i].Maison = top[k]
           /\ \A k, l \in DOMAIN top : k < l => Before(df, TopIdx(k), TopIdx(l))
           /\ \A j \in RowIdx(df) :
                (\A k \in DOMAIN top : TopIdx(k) # j) =>
                    \A k \in DOMAIN top : Before(df, TopIdx(k), j)

\* C16 witness: three rows of totals 1, 2, 1 and n = 2: the second row comes
\* first, and of the two rows tied at 1 the earlier one is kept.
C16_Witness ==
    /\ Charted
    /\ view.top_n = 2
    /\ Len(Df(data, view.selected_year).rows) = 3
    /\ TenSum(Df(data, view.selected_year).rows[1].cnt) = 1
    /\ TenSum(Df(data, view.selected_year).rows[2].cnt) = 2
    /\ TenSum(Df(data, view.selected_year).rows[3].cnt) = 1
    /\ view.result.top_maisons =
          <<Df(data, view.selected_year).rows[2].Maison,
            Df(data, view.selected_year).rows[1].Maison>>

\* The years a top-n Maison is charted for: the previous year of the selected
\* one when it is loaded and its table names the Maison, then the selected
\* year.  A Maison is the name written in the tables.
ChartYears(m) ==
    LET prev == Predecessor(view.selected_year)
    IN (IF prev # None /\ data[prev[1]] # None
            /\ \E i \in RowIdx(Df(data, prev[1])) : Df(data, prev[1]).rows[i].Maison = m
        THEN <<prev[1]>> ELSE <<>>)
       \o <<view.selected_year>>

\* The long-format rows of Maison m and year y, in the order emitted.
PivotRows(m, y) ==
    SelectSeq(view.result.chart_data, LAMBDA r : r.Maison = m /\ r.Year = y)

\* The category cells of Maison m in the loaded table of year y.
LoadedCells(m, y) ==
    Df(data, y).rows[CHOOSE i \in RowIdx(Df(data, y)) :
                        Df(data, y).rows[i].Maison = m].cnt

\* C17: for every top-n Maison and each of the previous and the selected
\* year in which it has a row, the chart data holds exactly ten rows, one per
\* category in the fixed order, with the Maison's count of that category and
\* year; 20 rows for a Maison of both years, 10 for one of the selected year
\* only, and no other rows.
C17_PivotContent ==
    Charted =>
        LET top == view.result.top_maisons
            rows == view.result.chart_data
        IN /\ \A k \in DOMAIN top :
                /\ \A j \in DOMAIN ChartYears(top[k]) :
                      LET y == ChartYears(top[k])[j]
                      IN /\ Len(PivotRows(top[k], y)) = Len(Categories)
                         /\ \A c \in 1..Len(Categories) :
                               /\ PivotRows(top[k], y)[c].Category = Categories[c]
                               /\ PivotRows(top[k], y)[c].Mentions =
                                    LoadedCells(top[k], y)[Categories[c]]
                /\ Len(SelectSeq(rows, LAMBDA r : r.Maison = top[k])) =
                        Len(Categories) * Len(ChartYears(top[k]))
           /\ \A r \in DOMAIN rows : \E k \in DOMAIN top :
                /\ rows[r].Maison = top[k]
                /\ \E j \in DOMAIN ChartYears(top[k]) :
                      rows[r].Year = ChartYears(top[k])[j]

\* C17 witness: a chart of two Maisons, the first with a row in both years
\* (20 rows, among them a non-zero count of the previous year), the second
\* in the selected year only (10 rows).
C17_Witness ==
    /\ Charted
    /\ Len(view.result.top_maisons) = 2
    /\ Len(ChartYears(view.result.top_maisons[1])) = 2
    /\ Len(ChartYears(view.result.top_maisons[2])) = 1
    /\ Len(view.result.chart_data) = 30
    /\ view.result.chart_data[10].Mentions = 2
    /\ view.result.chart_data[10].Year # view.selected_year

\* The bar (block of ten long-format rows) at position j of the chart data.
Block(j) == view.result.chart_data[Len(Categories) * (j - 1) + 1]

\* The position of a Maison in top_maisons.
TopPos(m) == CHOOSE k \in DOMAIN view.result.top_maisons :
                view.result.top_maisons[k] = m

\* C18: the bar labels and the long-format rows follow the top-n order of the
\* Maisons; a Maison's previous-year bar, when there is one, is immediately
\* before its selected-year bar, so no other Maison's bar lies between; and
\* every label occurs once.
C18_PivotOrdering ==
    Charted =>
        LET labels == view.result.ordered_labels
            rows == view.result.chart_data
        IN /\ Len(rows) = Len(Categories) * Len(labels)
           /\ \A r \in DOMAIN rows :
                rows[r].Maison_Year = labels[((r - 1) \div Len(Categories)) + 1]
           /\ \A i, j \in DOMAIN labels : i < j =>
                /\ labels[i] # labels[j]
                /\ TopPos(Block(i).Maison) <= TopPos(Block(j).Maison)
           /\ \A j \in DOMAIN labels :
                Block(j).Year # view.selected_year =>
                    /\ j + 1 \in DOMAIN labels
                    /\ Block(j + 1).Maison = Block(j).Maison
                    /\ Block(j + 1).Year = view.selected_year
           /\ \A k \in DOMAIN view.result.top_maisons :
                \E j \in DOMAIN labels :
                    /\ Block(j).Maison = view.result.top_maisons[k]
                    /\ Block(j).Year = view.selected_year

\* C18 witness: two Maisons, each with a bar for both years: four labels,
\* previous year then selected year for the first Maison, then the same for
\* the second.
C18_Witness ==
    /\ Charted
    /\ Len(view.result.top_maisons) = 2
    /\ Len(view.result.ordered_labels) = 4
    /\ Block(1).Maison = view.result.top_maisons[1]
    /\ Block(1).Year # view.selected_year
    /\ Block(2).Maison = view.result.top_maisons[1]
    /\ Block(3).Maison = view.result.top_maisons[2]
    /\ Block(3).Year # view.selected_year
    /\ Block(4).Year = view.selected_year

\* get_kpis returned without raising.
KpisReturned == pc = "kpis" /\ ~IsRaised(kpis.result)

\* The result carries no year-over-year comparison.
NoComparison ==
    /\ kpis.result.prev_most_mentioned = None
    /\ \/ kpis.result.prev_category_leaders = None
       \/ DOMAIN kpis.result.prev_category_leaders[1] = {}

\* The selected year is the earliest period or its predecessor is not loaded.
NoPredecessorTable ==
    \/ Predecessor(kpis.selected_year) = None
    \/ data[Predecessor(kpis.selected_year)[1]] = None

\* C19 as stated: get_kpis yields no year-over-year comparison exactly when
\* the selected year is the earliest period or its predecessor's table is
\* not loaded; otherwise prev_most_mentioned is set and prev_category_leaders
\* has an entry for each of the ten categories.
C19_NoComparisonExactlyWhen ==
    KpisReturned =>
        /\ NoComparison <=> NoPredecessorTable
        /\ ~NoPredecessorTable =>
              /\ kpis.result.prev_most_mentioned # None
              /\ kpis.result.prev_category_leaders # None
              /\ DOMAIN kpis.result.prev_category_leaders[1] = CategorySet

\* C19 amended: the statement holds for a selected year whose table is
\* loaded; for a selected year that is not loaded get_kpis returns four
\* nulls, whatever its predecessor.
C19_NoComparisonWhenLoaded ==
    /\ KpisDone =>
        /\ NoComparison <=> NoPredecessorTable
        /\ NoPredecessorTable => kpis.result.prev_category_leaders = Some(<<>>)
        /\ ~NoPredecessorTable =>
              /\ kpis.result.prev_most_mentioned # None
              /\ DOMAIN kpis.result.prev_category_leaders[1] = CategorySet
    /\ (pc = "kpis" /\ data[kpis.selected_year] = None) => kpis.result = NoKpis

\* C19 witness: the earliest period was selected while a later year is
\* loaded too, and the result has no comparison.
C19_Witness ==
    /\ KpisDone
    /\ kpis.selected_year = Y2019
    /\ LoadedYears(data) # {Y2019}
    /\ NoComparison

\* The pairs of rows, one of each compared table, that name the same Maison.
InBoth ==
    {x \in (1..MaxRows) \X (1..MaxRows) :
        /\ x[1] <= Len(view.original_file[1].rows)
        /\ x[2] <= Len(view.verified_file[1].rows)
        /\ normalize(view.original_file[1].rows[x[1]].Maison)
             = normalize(view.verified_file[1].rows[x[2]].Maison)}

Reported == {view.result[1].differences[k] :
                k \in 1..Len(view.result[1].differences)}

\* compare_mentions completes and reports exactly the differing counts of
\* the Maisons present in both tables.
CompareOnlyBoth ==
    (/\ pc = "compared"
     /\ view.original_file # None /\ view.verified_file # None)
    => /\ ~IsRaised(view.result[1])
       /\ view.result[1].found
       /\ Reported =
            {[Maison |-> normalize(view.original_file[1].rows[x[1]].Maison),
              Category |-> c,
              Original |-> view.original_file[1].rows[x[1]].cnt[c],
              Verified |-> view.verified_file[1].rows[x[2]].cnt[c],
              Difference |-> view.verified_file[1].rows[x[2]].cnt[c]
                               - view.original_file[1].rows[x[1]].cnt[c]] :
                <<x, c>> \in {z \in InBoth \X CategorySet :
                    view.original_file[1].rows[z[1][1]].cnt[z[2]]
                      # view.verified_file[1].rows[z[1][2]].cnt[z[2]]}}

\* The loaded years in which the selected Maison has a mentions row but no
\* details row (no details table, or a table without a row for it).
WithoutDetails ==
    {y \in YearSet :
        /\ data[y] # None
        /\ \E i \in RowIdx(data[y][1]) :
                data[y][1].rows[i].Maison = view.selected_maison
        /\ \/ data[details_key(y)] = None
           \/ \A i \in 1..Len(data[details_key(y)][1].rows) :
                Maison(data[details_key(y)][1].index,
                       data[details_key(y)][1].rows[i]) # view.selected_maison}

DetailsViewCompletes ==
    (/\ pc = "viewed" /\ view.op = "display_maison_details"
     /\ \A y \in YearSet : data[y] # None => data[y][1].missing = {})
    => /\ ~IsRaised(view.result)
       /\ WithoutDetails # {} =>
            /\ view.result.found
            /\ \A y \in WithoutDetails :
                /\ \E k \in 1..Len(view.result.available_years) :
                        view.result.available_years[k] = y
                /\ \A a \in view.result.activity_data : a.Year # y

\* C20: a Maison present in only one of two related tables is treated as
\* absent in the other and never causes an error: compare_mentions reports
\* differences only for Maisons present in both tables and completes, and
\* display_maison_details completes for a Maison with a mentions row but no
\* details row in a year, showing no activities for that year.
C20_OneSidedMaisonIsAbsent == CompareOnlyBoth /\ DetailsViewCompletes

\* A comparison with a Maison on one side only and a reported difference.
C20_CompareWitness ==
    /\ pc = "compared"
    /\ view.original_file # None /\ view.verified_file # None
    /\ \E i \in RowIdx(view.original_file[1]) :
          \A j \in RowIdx(view.verified_file[1]) :
              normalize(view.original_file[1].rows[i].Maison)
                # normalize(view.verified_file[1].rows[j].Maison)
    /\ view.result[1].differences # <<>>

\* A Maison with a mentions row and no details row in a year whose details
\* table is loaded, and with activities in another year.
C20_Witness ==
    /\ pc = "viewed" /\ view.op = "display_maison_details"
    /\ \E y \in WithoutDetails : data[details_key(y)] # None
    /\ view.result.activity_data # {}

\* The rows of the selected year's loaded table holding the maximum of a
\* category, when that maximum exceeds 1.
CoLeaders(c) ==
    LET rows == data[view.selected_year][1].rows
    IN {i \in 1..Len(rows) :
            /\ rows[i].cnt[c] > 1
            /\ \A j \in 1..Len(rows) : rows[j].cnt[c] <= rows[i].cnt[c]}

\* The names of the given rows, in the order p, separated by ", ".
RECURSIVE CellListing(_, _)
CellListing(rows, p) ==
    IF Len(p) = 1 THEN rows[p[1]].Maison
    ELSE rows[p[1]].Maison \o <<",", " ">> \o CellListing(rows, Tail(p))

LeaderRows == view.result.leaders_df.rows

OverviewRendered ==
    /\ pc = "viewed" /\ view.op = "overview"
    /\ ~IsRaised(view.result) /\ view.result.rendered

\* C21: in the Category Leaders table every category whose maximum exceeds 1
\* has exactly one row, listing all tied co-leaders with the shared maximum;
\* other categories have no row; rows are ordered by Mentions descending,
\* then Category name ascending.
C21_CategoryLeadersTable ==
    OverviewRendered =>
        LET rows == data[view.selected_year][1].rows
            crowned == {c \in CategorySet : CoLeaders(c) # {}}
        IN  IF crowned = {} THEN ~view.result.leaders_df.shown
            ELSE /\ view.result.leaders_df.shown
                 /\ Len(LeaderRows) = Cardinality(crowned)
                 /\ \A c \in crowned :
                      \E k \in 1..Len(LeaderRows) :
                        /\ LeaderRows[k].leader.Category = c
                        /\ \E i \in CoLeaders(c) :
                              LeaderRows[k].leader.Mentions = rows[i].cnt[c]
                        /\ \E p \in [1..Cardinality(CoLeaders(c)) -> CoLeaders(c)] :
                              /\ \A a, b \in DOMAIN p : p[a] = p[b] => a = b
                              /\ LeaderRows[k].leader.Maison = CellListing(rows, p)
                 /\ \A i, j \in 1..Len(LeaderRows) : i < j =>
                      \/ LeaderRows[i].leader.Mentions > LeaderRows[j].leader.Mentions
                      \/ /\ LeaderRows[i].leader.Mentions = LeaderRows[j].leader.Mentions
                         /\ StrLess(CatChars[LeaderRows[i].leader.Category],
                                    CatChars[LeaderRows[j].leader.Category])

\* A table of two rows with equal Mentions, one of them naming two co-leaders,
\* in an order other than that of the category list.
C21_Witness ==
    /\ OverviewRendered
    /\ view.result.leaders_df.shown
    /\ Len(LeaderRows) = 2
    /\ LeaderRows[1].leader.Category = "Awards"
    /\ LeaderRows[2].leader.Category = "Product"
    /\ \E c \in CategorySet : Cardinality(CoLeaders(c)) >= 2

\* The sum of the stored Total_Mentions cells of the first n rows.
RECURSIVE StoredTotal(_, _)
StoredTotal(rows, n) ==
    IF n = 0 THEN 0 ELSE rows[n].Total_Mentions + StoredTotal(rows, n - 1)

\* C22: the Total Mentions and Total Maisons cards of the Overview show the
\* sum of Total_Mentions and the number of rows of the selected year's table,
\* for every selectable year.
C22_TotalsOfSelectedYear ==
    OverviewRendered =>
        /\ view.result.total_mentions
             = StoredTotal(data[view.selected_year][1].rows, Len(data[view.selected_year][1].rows))
        /\ view.result.total_maisons = Len(data[view.selected_year][1].rows)

\* The cards show the totals of the last tracked period.
TotalsOfLastPeriod ==
    OverviewRendered =>
        /\ view.result.total_mentions
             = StoredTotal(data[Y2025H1][1].rows, Len(data[Y2025H1][1].rows))
        /\ view.result.total_maisons = Len(data[Y2025H1][1].rows)

\* C23: the banner lists a year if and only if the mentions table loaded for
\* that year was read from a verified file (standardized_verified or
\* verified), for every combination of existing candidate files.
C23_BannerNamesVerifiedLoads ==
    (pc = "viewed" /\ view.op = "banner") =>
        \A y \in YearSet :
            (\E k \in 1..Len(view.verified_years) : view.verified_years[k] = y)
            <=> (loaded_from[y] # None /\ loaded_from[y][1] \in VerifiedKinds)

\* What the banner does list: the years for which the file named
\* *_maison_mentions_verified.xlsx exists, whichever file was loaded.
BannerNamesVerifiedFile ==
    (pc = "viewed" /\ view.op = "banner") =>
        \A y \in YearSet :
            (\E k \in 1..Len(view.verified_years) : view.verified_years[k] = y)
            <=> "verified" \in files[y]

\* The two derived counts of the details row for a category: the one the run
\* wrote into its output, the other computed from the same row.
WrittenFor(i) ==
    verified.table.rows[
        CHOOSE j \in RowIdx(verified.table) :
            verified.table.rows[j].Maison
                \in {Maison(details.index, details.rows[i]),
                     normalize(Maison(details.index, details.rows[i]))}]

ActivitiesCount(i, c) ==
    IF verified.by = "standardized_verified"
        THEN WrittenFor(i).cnt[c]
        ELSE count_activities_for_maison(details.index, details.rows[i]).cnt[c]

MentionsCount(i, c) ==
    IF verified.by = "verified"
        THEN WrittenFor(i).cnt[c]
        ELSE count_mentions_in_details(details.index, details.rows[i], c)

\* Every column '<Category>_...' of the details table is one of the fixed
\* columns of its category.
FixedColumnsOnly ==
    \A k \in 1..Len(details.index) : \A c \in CategorySet :
        StartsWith(details.index[k], CatChars[c] \o <<"_">>) =>
            \E i \in 1..category_columns[c] : details.index[k] = Col(c, i)

\* The cells of the row under the columns of a category.
CategoryCells(c) ==
    {k \in 1..Len(details.index) :
        StartsWith(details.index[k], CatChars[c] \o <<"_">>)}

\* A cell that is, once trimmed, '0', 'nan' in any case, or nothing but
\* citation tokens.
PlaceholderAsWritten(cell) ==
    /\ cell # None
    /\ Strip(cell[1]) # <<>>
    /\ \/ Strip(cell[1]) = Zero
       \/ Lower(Strip(cell[1])) = Nan
       \/ Strip(WithoutTokens(Strip(cell[1]))) = <<>>

\* C24 as stated: on a row with only the fixed columns the activities count
\* is at most the mentions count, with equality whenever no cell is '0',
\* 'nan' (any case) or made only of citation tokens.
C24_DeriversAgreeOnClean ==
    (pc = "generated" /\ FixedColumnsOnly) =>
        \A i \in 1..Len(details.rows) : \A c \in CategorySet :
            /\ ActivitiesCount(i, c) <= MentionsCount(i, c)
            /\ (\A k \in CategoryCells(c) :
                    ~PlaceholderAsWritten(details.rows[i][k]))
                => ActivitiesCount(i, c) = MentionsCount(i, c)

\* C24 amended: equality whenever no cell is, after trimming and removal of
\* its citation tokens, empty, '0' or 'nan' (any case).
C24_DeriversAgreeOnCleaned ==
    (pc = "generated" /\ FixedColumnsOnly) =>
        \A i \in 1..Len(details.rows) : \A c \in CategorySet :
            /\ ActivitiesCount(i, c) <= MentionsCount(i, c)
            /\ (\A k \in CategoryCells(c) :
                    \/ details.rows[i][k] = None
                    \/ Strip(details.rows[i][k][1]) = <<>>
                    \/ IsActivity(details.rows[i][k]))
                => ActivitiesCount(i, c) = MentionsCount(i, c)

\* The documented example row: the counts differ (2 against 4) because of
\* the '0' and 'nan' cells, and agree for the clean Awards column.
C24_Witness ==
    /\ pc = "generated" /\ FixedColumnsOnly
    /\ Len(details.index) = 8
    /\ ActivitiesCount(1, "Product") = 2 /\ MentionsCount(1, "Product") = 4
    /\ ActivitiesCount(1, "Awards") = 1 /\ MentionsCount(1, "Awards") = 1

\* Without the precondition the order can be reversed: a column Product_x
\* counts for the activities and not for the mentions.
OrderedWithoutFixedColumns ==
    pc = "generated" =>
        \A i \in 1..Len(details.rows) : \A c \in CategorySet :
            ActivitiesCount(i, c) <= MentionsCount(i, c)

\* The sum of the first n category cells of a row.
RECURSIVE CategoryTotal(_, _)
CategoryTotal(cnt, n) ==
    IF n = 0 THEN 0 ELSE cnt[Categories[n]] + CategoryTotal(cnt, n - 1)

\* r is a row of df, carrying its recomputed total, and no row of df has a
\* larger recomputed total.
TopRowOf(r, df) ==
    /\ \E i \in RowIdx(df) :
          /\ r.Maison = df.rows[i].Maison
          /\ r.cnt = df.rows[i].cnt
    /\ r.Total_Mentions = CategoryTotal(r.cnt, Len(Categories))
    /\ \A j \in RowIdx(df) :
          CategoryTotal(df.rows[j].cnt, Len(Categories)) <= r.Total_Mentions

\* C25: most_mentioned is a row of the selected year's table whose
\* recomputed Total_Mentions is at least that of every other row, and
\* prev_most_mentioned is such a row of the previous year's table when that
\* year is loaded.
C25_MostMentionedIsMaximal ==
    KpisDone =>
        /\ kpis.result.most_mentioned # None
        /\ TopRowOf(kpis.result.most_mentioned[1], Df(data, kpis.selected_year))
        /\ PrevLoaded =>
            /\ kpis.result.prev_most_mentioned # None
            /\ TopRowOf(kpis.result.prev_most_mentioned[1],
                        Df(data, get_previous_year(kpis.selected_year)[1]))

\* The most mentioned Maison is not the first row of its table, has a
\* positive total recomputed over a stale stored one, and the previous year
\* has its own.
C25_Witness ==
    /\ KpisDone /\ PrevLoaded
    /\ kpis.result.most_mentioned[1].Maison
         # Df(data, kpis.selected_year).rows[1].Maison
    /\ kpis.result.most_mentioned[1].Total_Mentions > 0
    /\ kpis.result.prev_most_mentioned[1].Total_Mentions > 0

\* The Maison names written in the loaded tables.
NamesSeen ==
    {n \in {Bvlgari, Bulgari, Dior, Fendi, Loewe} :
        \E y \in YearSet :
            /\ data[y] # None
            /\ \E i \in 1..Len(data[y][1].rows) : data[y][1].rows[i].Maison = n}

\* C26: the cross-year table has exactly one row per distinct Maison name
\* written in the loaded tables, and its rows are in ascending order of
\* Maison name, whatever the order and overlap of the per-year tables.
C26_OneRowPerNameAscending ==
    Ranked =>
        /\ {Out[k].Maison : k \in DOMAIN Out} = NamesSeen
        /\ Len(Out) = Cardinality(NamesSeen)
        /\ \A k \in 1..(Len(Out) - 1) : StrLess(Out[k].Maison, Out[k + 1].Maison)

\* Two years whose tables overlap in one name and list the names in an order
\* other than the ascending one; three rows come out.
C26_Witness ==
    /\ Ranked
    /\ Len(Out) = 3
    /\ \E y1, y2 \in LoadedYears(data) :
          /\ y1 # y2
          /\ Len(Df(data, y1).rows) = 2 /\ Len(Df(data, y2).rows) = 2
          /\ StrLess(Df(data, y1).rows[2].Maison, Df(data, y1).rows[1].Maison)
          /\ \E i, j \in 1..2 :
                Df(data, y1).rows[i].Maison = Df(data, y2).rows[j].Maison

\* The output rows, as (Maison, category counts, total), that one details
\* row gives rise to under the run's generator.
DerivedFrom(i) ==
    {j \in RowIdx(verified.table) :
        /\ verified.table.rows[j].Maison
             = (IF verified.by = "verified"
                  THEN normalize(Maison(details.index, details.rows[i]))
                  ELSE Maison(details.index, details.rows[i]))
        /\ \A c \in CategorySet :
              verified.table.rows[j].cnt[c]
                = (IF verified.by = "verified"
                     THEN count_mentions_in_details(details.index, details.rows[i], c)
                     ELSE Cardinality(ActivityCells(details.index, details.rows[i], c)))}

\* C27: both generators emit exactly one output row per input details row,
\* and the output rows are in non-increasing order of Total_Mentions.
C27_OneRowPerDetailsRowSorted ==
    (pc = "generated" /\ details.rows # <<>>) =>
        /\ ~IsRaised(verified.table)
        /\ Len(verified.table.rows) = Len(details.rows)
        /\ \E p \in Perms(Len(details.rows)) :
              \A i \in 1..Len(details.rows) : p[i] \in DerivedFrom(i)
        /\ \A j \in 1..(Len(verified.table.rows) - 1) :
              verified.table.rows[j].Total_Mentions
                >= verified.table.rows[j + 1].Total_Mentions

\* Three details rows whose totals rise down the table come out reversed.
C27_Witness ==
    /\ pc = "generated"
    /\ Len(details.rows) = 3
    /\ verified.table.rows[1].Maison = Fendi
    /\ verified.table.rows[1].Total_Mentions = 2
    /\ verified.table.rows[2].Total_Mentions = 1
    /\ verified.table.rows[3].Maison = Dior
    /\ verified.table.rows[3].Total_Mentions = 0

\* The number of fixed columns of each category, as documented.
ColumnsOfCategory ==
    [c \in CategorySet |->
        CASE c \in {"Product", "Place"} -> 5
          [] c = "Promotion" -> 4
          [] c = "Partnership" -> 3
          [] c \in {"ESG", "Digital"} -> 2
          [] OTHER -> 1]

\* The fixed columns of a category that the details table has.
PresentColumns(c) ==
    {i \in 1..ColumnsOfCategory[c] :
        \E k \in 1..Len(details.index) : details.index[k] = Col(c, i)}

\* C28: count_mentions_in_details returns a count between 0 and the number
\* of fixed columns of the category, 0 for a category outside the ten, and
\* never more than the fixed columns present in the row; the row total of
\* generate_verified_mentions never exceeds 25.
C28_CountWithinColumns ==
    /\ pc = "counted" =>
          IF view.category \in CategorySet
          THEN /\ view.result \in 0..ColumnsOfCategory[view.category]
               /\ view.result <= Cardinality(PresentColumns(view.category))
          ELSE view.result = 0
    /\ (pc = "generated" /\ ~IsRaised(verified.table)) =>
          \A j \in RowIdx(verified.table) :
              /\ verified.table.rows[j].Total_Mentions <= 25
              /\ \A c \in CategorySet :
                    verified.table.rows[j].cnt[c] \in 0..ColumnsOfCategory[c]

\* A row with all 25 fixed columns filled totals 25.
C28_Witness ==
    /\ pc = "generated"
    /\ Len(details.index) = 27
    /\ verified.table.rows[1].Total_Mentions = 25

\* A count reaches the five Product columns while a filled Product_x stays
\* out of it.
C28_FullCategory ==
    /\ pc = "counted"
    /\ view.category = "Product" /\ view.result = 5
    /\ Len(details.index) = 8 /\ details.rows[1][8] = Some(OpenedStore)

\* A text holding an opening bracket followed later by a closing one.
HoldsToken(s) ==
    \E i, j \in 1..Len(s) : i < j /\ s[i] = "[" /\ s[j] = "]"

\* C29: clean_citations is idempotent; its result never holds a complete
\* citation token; it returns null for a text that is empty after cleaning
\* and returns NaN and non-text values unchanged.
C29_CleanCitationsIdempotent ==
    (pc = "clean" /\ view.passes # <<>>) =>
        /\ \A k \in 2..Len(view.passes) : view.passes[k] = view.passes[1]
        /\ (view.passes[1] # None /\ is_str(view.passes[1])) =>
                ~HoldsToken(view.passes[1][1])
        /\ (view.text # None /\ is_str(view.text)) =>
                /\ view.passes[1] = None
                     <=> Strip(WithoutTokens(view.text[1])) = <<>>
                /\ view.passes[1] # None => is_str(view.passes[1])
        /\ (view.text = None \/ ~is_str(view.text)) => view.passes[1] = view.text

\* Nested tokens cleaned twice: the first pass leaves a lone closing bracket,
\* the second leaves it as it is.
C29_Witness ==
    /\ pc = "clean"
    /\ view.text = Some(NestedTokens)
    /\ view.passes = <<Some(<<"]">>), Some(<<"]">>)>>

\* A number comes back unchanged and a text of tokens only comes back null.
C29_NonTextAndEmpty ==
    /\ pc = "clean"
    /\ \/ view.text = Number(0) /\ view.passes = <<Number(0), Number(0)>>
       \/ view.text = Some(OnlyCitation) /\ view.passes = <<None, None>>

\* The sum of a category over the first n rows of a table.
RECURSIVE CategoryOverRows(_, _, _)
CategoryOverRows(rows, c, n) ==
    IF n = 0 THEN 0 ELSE rows[n].cnt[c] + CategoryOverRows(rows, c, n - 1)

\* The sum of the Mentions of the entries from..to of the chart.
RECURSIVE MentionsOfEntries(_, _, _)
MentionsOfEntries(entries, from, to) ==
    IF from > to THEN 0
    ELSE entries[to].Mentions + MentionsOfEntries(entries, from, to - 1)

\* The sum over the first n rows of the rows' ten-category totals.
RECURSIVE RowTotalsSum(_, _)
RowTotalsSum(rows, n) ==
    IF n = 0 THEN 0
    ELSE CategoryTotal(rows[n].cnt, Len(Categories)) + RowTotalsSum(rows, n - 1)

\* The loaded years, in the tracked order.
TrackedLoaded == SelectSeq(Years, LAMBDA y : data[y] # None)

TotalChartDrawn ==
    /\ pc = "viewed" /\ view.op = "create_total_mentions_chart"
    /\ ~IsRaised(view.result) /\ view.result.fig

\* C30: create_total_mentions_chart emits, for every loaded year and each of
\* the ten categories, exactly one entry whose Mentions is the sum of that
\* category over the year's rows, in tracked-year order then category order;
\* the entries of a year sum to the sum of its rows' category totals.
C30_TotalChartEntries ==
    TotalChartDrawn =>
        LET entries == view.result.chart_data
        IN  /\ Len(entries) = Len(TrackedLoaded) * Len(Categories)
            /\ \A k \in 1..Len(TrackedLoaded) :
                 /\ \A j \in 1..Len(Categories) :
                      entries[(k - 1) * Len(Categories) + j] =
                        [Year |-> TrackedLoaded[k], Category |-> Categories[j],
                         Mentions |->
                            CategoryOverRows(data[TrackedLoaded[k]][1].rows,
                                Categories[j],
                                Len(data[TrackedLoaded[k]][1].rows))]
                 /\ MentionsOfEntries(entries, (k - 1) * Len(Categories) + 1,
                                      k * Len(Categories))
                      = RowTotalsSum(data[TrackedLoaded[k]][1].rows,
                                     Len(data[TrackedLoaded[k]][1].rows))

\* Two loaded years, the later one with two rows whose Product cells add up.
C30_Witness ==
    /\ TotalChartDrawn
    /\ Len(view.result.chart_data) = 20
    /\ view.result.chart_data[11].Category = "Product"
    /\ view.result.chart_data[11].Mentions = 3
    /\ Len(data[view.result.chart_data[11].Year][1].rows) = 2

====
